---- MODULE Spec2Model ----
(***************************************************************************)
(* Model of the Moonraker/Klipper printer clients of Printer_control:      *)
(*   src/3DPrinter.py  class Printer  (attachment-envelope validation)     *)
(*   src/k2pro.py      class K2Pro    ("in the air" moves)                 *)
(*                                                                         *)
(* One client object exists at a time and one call runs at a time (the     *)
(* library is synchronous and single threaded).  A call advances one HTTP  *)
(* request, console prompt, clock read or sleep per step; the answer of    *)
(* the remote printer to each request is an input of that step.  A run of  *)
(* get_chamber_temperature (up to five requests) is a single step.         *)
(*                                                                         *)
(* Units: coordinates and temperatures are whole millimetres / degrees     *)
(* (the point home parks at is p/den, counted in halves);                  *)
(* a speed s stands for s/SpeedDen mm/s; time is counted in ticks of       *)
(* 1/TicksPerSec second (the default poll interval, 0.2 s, is one tick):   *)
(* a sleep lasts its interval, or until the timeout or one tick past it.   *)
(***************************************************************************)
EXTENDS Integers, Sequences, FiniteSets, TLC

VARIABLES
    obj,      \* which client object exists: "none", "Printer", "K2Pro"
    cfg,      \* its configuration (PrinterConfig / K2ProConfig)
    limits,   \* Printer._limits : None or <<<<xmin,xmax>>,<<ymin,ymax>>,<<zmin,zmax>>>>
    op,       \* the public operation in progress ("none" when idle)
    frame,    \* the function whose body is executing (innermost call)
    pc,       \* position inside that function
    a,        \* arguments of the public operation
    m,        \* arguments, locals and result of the inner frame in progress
    log,      \* requests, prompts and validator runs of the call, in order
    exc,      \* how the call ended: "none" (running), "ok", or the exception class
    msg,      \* which raise statement ended it
    elapsed,  \* time.time() - t0 of the wait loop in progress, in ticks
    reads,    \* status reads made by the wait loop in progress
    sleeps,   \* time.sleep calls made by the wait loop in progress
    lastMoving \* the "moving" flag of the wait loop's last status read

vars == <<obj, cfg, limits, op, frame, pc, a, m, log, exc, msg,
          elapsed, reads, sleeps, lastMoving>>

-----------------------------------------------------------------------------
(* Bounds of the model *)

\* the wait-loop clock saturates here (above every timeout used)
MaxElapsed == 601
\* the wait-loop read/sleep counters saturate here
MaxCount == 3

-----------------------------------------------------------------------------
(* Program constants *)

\* ticks per second: poll_interval = 0.2 s is one tick
TicksPerSec == 5
\* Printer.wait_moves(timeout=120.0), in seconds
PrinterWaitTimeoutS == 120
\* K2Pro.wait_moves(timeout=60.0), in seconds
K2ProWaitTimeoutS == 60
\* wait_moves(poll_interval=0.2), in ticks
DefaultPoll == 1
\* a speed value s of the model stands for the float s / SpeedDen mm/s
SpeedDen == 2 * 60
\* the largest speed value the feedrate is modelled for: 50 mm/s
MaxSpeed == 6000
\* PrinterConfig.z_speed_mm_s = 8.0
ZSpeedDefault == 8 * SpeedDen
\* home(): speed_mm_s=20 of the move to the parking point
HomeSpeed == 20 * SpeedDen
\* home(): z = -(attach_min_z) + 10
HomeZClearance == 10
\* move_xy_air: the Z move is sent with F{int(30*60)}
XyAirZFeed == 30 * 60
\* K2Pro.move_relative(max_abs_dz=5.0)
MaxAbsDzDefault == 5
\* PrinterConfig.timeout = 60.0, in seconds
HttpTimeoutS == 60
\* a PrinterConfig.timeout other than the default, in seconds
ShortTimeoutS == 10
\* set_bed_temperature accepts 0..150 degrees
BedMaxC == 150
\* set_chamber_temperature accepts 0..90 degrees
ChamberMaxC == 90
\* _wait_chamber_reach(tol=1.0), in degrees
ChamberTol == 1
\* _wait_chamber_reach(poll_s=1.0), in seconds
ChamberPollS == 1

None == <<>>

Min(x, y) == IF x < y THEN x ELSE y
\* faulty variant: the first argument is kept whatever the second
Max_first(x, y) == x
Max(x, y) == IF x > y THEN x ELSE y
Abs(x) == IF x < 0 THEN -x ELSE x

-----------------------------------------------------------------------------
(* Strings the code inspects are sequences of code points (Python's ord):  *)
(* "xyz" is <<120, 121, 122>>.  Str spells a string out of letters and       *)
(* blanks; any other character is written as its code point.                *)

LowerCase == <<"a","b","c","d","e","f","g","h","i","j","k","l","m",
               "n","o","p","q","r","s","t","u","v","w","x","y","z">>
UpperCase == <<"A","B","C","D","E","F","G","H","I","J","K","L","M",
               "N","O","P","Q","R","S","T","U","V","W","X","Y","Z">>

\* the string made of the letters and blanks s[1], s[2], ... : their ord()
Str(s) ==
    LET ord(c) ==
            IF \E i \in 1..26 : UpperCase[i] = c
            THEN 64 + (CHOOSE i \in 1..26 : UpperCase[i] = c)
            ELSE IF \E i \in 1..26 : LowerCase[i] = c
            THEN 96 + (CHOOSE i \in 1..26 : LowerCase[i] = c)
            ELSE 32
    IN  [i \in 1..Len(s) |-> ord(s[i])]

\* str.lower() of a non-ASCII code point whose lower case is one code point:
\* <<lo, hi, step, d>> sends every step-th code point c of lo..hi to c + d
\* (Unicode 14.0.0, the character database of the interpreter)
LowerRuns ==
    << <<192, 214, 1, 32>>, <<216, 222, 1, 32>>, <<256, 302, 2, 1>>,
       <<306, 310, 2, 1>>, <<313, 327, 2, 1>>, <<330, 374, 2, 1>>,
       <<376, 376, 1, -121>>, <<377, 381, 2, 1>>, <<385, 385, 1, 210>>,
       <<386, 388, 2, 1>>, <<390, 390, 1, 206>>, <<391, 391, 1, 1>>,
       <<393, 394, 1, 205>>, <<395, 395, 1, 1>>, <<398, 398, 1, 79>>,
       <<399, 399, 1, 202>>, <<400, 400, 1, 203>>, <<401, 401, 1, 1>>,
       <<403, 403, 1, 205>>, <<404, 404, 1, 207>>, <<406, 406, 1, 211>>,
       <<407, 407, 1, 209>>, <<408, 408, 1, 1>>, <<412, 412, 1, 211>>,
       <<413, 413, 1, 213>>, <<415, 415, 1, 214>>, <<416, 420, 2, 1>>,
       <<422, 422, 1, 218>>, <<423, 423, 1, 1>>, <<425, 425, 1, 218>>,
       <<428, 428, 1, 1>>, <<430, 430, 1, 218>>, <<431, 431, 1, 1>>,
       <<433, 434, 1, 217>>, <<435, 437, 2, 1>>, <<439, 439, 1, 219>>,
       <<440, 440, 1, 1>>, <<444, 444, 1, 1>>, <<452, 452, 1, 2>>,
       <<453, 453, 1, 1>>, <<455, 455, 1, 2>>, <<456, 456, 1, 1>>,
       <<458, 458, 1, 2>>, <<459, 475, 2, 1>>, <<478, 494, 2, 1>>,
       <<497, 497, 1, 2>>, <<498, 500, 2, 1>>, <<502, 502, 1, -97>>,
       <<503, 503, 1, -56>>, <<504, 542, 2, 1>>, <<544, 544, 1, -130>>,
       <<546, 562, 2, 1>>, <<570, 570, 1, 10795>>, <<571, 571, 1, 1>>,
       <<573, 573, 1, -163>>, <<574, 574, 1, 10792>>, <<577, 577, 1, 1>>,
       <<579, 579, 1, -195>>, <<580, 580, 1, 69>>, <<581, 581, 1, 71>>,
       <<582, 590, 2, 1>>, <<880, 882, 2, 1>>, <<886, 886, 1, 1>>,
       <<895, 895, 1, 116>>, <<902, 902, 1, 38>>, <<904, 906, 1, 37>>,
       <<908, 908, 1, 64>>, <<910, 911, 1, 63>>, <<913, 929, 1, 32>>,
       <<931, 939, 1, 32>>, <<975, 975, 1, 8>>, <<984, 1006, 2, 1>>,
       <<1012, 1012, 1, -60>>, <<1015, 1015, 1, 1>>, <<1017, 1017, 1, -7>>,
       <<1018, 1018, 1, 1>>, <<1021, 1023, 1, -130>>, <<1024, 1039, 1, 80>>,
       <<1040, 1071, 1, 32>>, <<1120, 1152, 2, 1>>, <<1162, 1214, 2, 1>>,
       <<1216, 1216, 1, 15>>, <<1217, 1229, 2, 1>>, <<1232, 1326, 2, 1>>,
       <<1329, 1366, 1, 48>>, <<4256, 4293, 1, 7264>>,
       <<4295, 4295, 1, 7264>>, <<4301, 4301, 1, 7264>>,
       <<5024, 5103, 1, 38864>>, <<5104, 5109, 1, 8>>,
       <<7312, 7354, 1, -3008>>, <<7357, 7359, 1, -3008>>,
       <<7680, 7828, 2, 1>>, <<7838, 7838, 1, -7615>>, <<7840, 7934, 2, 1>>,
       <<7944, 7951, 1, -8>>, <<7960, 7965, 1, -8>>, <<7976, 7983, 1, -8>>,
       <<7992, 7999, 1, -8>>, <<8008, 8013, 1, -8>>, <<8025, 8031, 2, -8>>,
       <<8040, 8047, 1, -8>>, <<8072, 8079, 1, -8>>, <<8088, 8095, 1, -8>>,
       <<8104, 8111, 1, -8>>, <<8120, 8121, 1, -8>>, <<8122, 8123, 1, -74>>,
       <<8124, 8124, 1, -9>>, <<8136, 8139, 1, -86>>, <<8140, 8140, 1, -9>>,
       <<8152, 8153, 1, -8>>, <<8154, 8155, 1, -100>>,
       <<8168, 8169, 1, -8>>, <<8170, 8171, 1, -112>>,
       <<8172, 8172, 1, -7>>, <<8184, 8185, 1, -128>>,
       <<8186, 8187, 1, -126>>, <<8188, 8188, 1, -9>>,
       <<8486, 8486, 1, -7517>>, <<8490, 8490, 1, -8383>>,
       <<8491, 8491, 1, -8262>>, <<8498, 8498, 1, 28>>,
       <<8544, 8559, 1, 16>>, <<8579, 8579, 1, 1>>, <<9398, 9423, 1, 26>>,
       <<11264, 11311, 1, 48>>, <<11360, 11360, 1, 1>>,
       <<11362, 11362, 1, -10743>>, <<11363, 11363, 1, -3814>>,
       <<11364, 11364, 1, -10727>>, <<11367, 11371, 2, 1>>,
       <<11373, 11373, 1, -10780>>, <<11374, 11374, 1, -10749>>,
       <<11375, 11375, 1, -10783>>, <<11376, 11376, 1, -10782>>,
       <<11378, 11378, 1, 1>>, <<11381, 11381, 1, 1>>,
       <<11390, 11391, 1, -10815>>, <<11392, 11490, 2, 1>>,
       <<11499, 11501, 2, 1>>, <<11506, 11506, 1, 1>>,
       <<42560, 42604, 2, 1>>, <<42624, 42650, 2, 1>>,
       <<42786, 42798, 2, 1>>, <<42802, 42862, 2, 1>>,
       <<42873, 42875, 2, 1>>, <<42877, 42877, 1, -35332>>,
       <<42878, 42886, 2, 1>>, <<42891, 42891, 1, 1>>,
       <<42893, 42893, 1, -42280>>, <<42896, 42898, 2, 1>>,
       <<42902, 42920, 2, 1>>, <<42922, 42922, 1, -42308>>,
       <<42923, 42923, 1, -42319>>, <<42924, 42924, 1, -42315>>,
       <<42925, 42925, 1, -42305>>, <<42926, 42926, 1, -42308>>,
       <<42928, 42928, 1, -42258>>, <<42929, 42929, 1, -42282>>,
       <<42930, 42930, 1, -42261>>, <<42931, 42931, 1, 928>>,
       <<42932, 42946, 2, 1>>, <<42948, 42948, 1, -48>>,
       <<42949, 42949, 1, -42307>>, <<42950, 42950, 1, -35384>>,
       <<42951, 42953, 2, 1>>, <<42960, 42960, 1, 1>>,
       <<42966, 42968, 2, 1>>, <<42997, 42997, 1, 1>>,
       <<65313, 65338, 1, 32>>, <<66560, 66599, 1, 40>>,
       <<66736, 66771, 1, 40>>, <<66928, 66938, 1, 39>>,
       <<66940, 66954, 1, 39>>, <<66956, 66962, 1, 39>>,
       <<66964, 66965, 1, 39>>, <<68736, 68786, 1, 64>>,
       <<71840, 71871, 1, 32>>, <<93760, 93791, 1, 32>>,
       <<125184, 125217, 1, 34>> >>

\* str.upper() of a non-ASCII code point whose upper case is one code point
UpperRuns ==
    << <<181, 181, 1, 743>>, <<224, 246, 1, -32>>, <<248, 254, 1, -32>>,
       <<255, 255, 1, 121>>, <<257, 303, 2, -1>>, <<305, 305, 1, -232>>,
       <<307, 311, 2, -1>>, <<314, 328, 2, -1>>, <<331, 375, 2, -1>>,
       <<378, 382, 2, -1>>, <<383, 383, 1, -300>>, <<384, 384, 1, 195>>,
       <<387, 389, 2, -1>>, <<392, 392, 1, -1>>, <<396, 396, 1, -1>>,
       <<402, 402, 1, -1>>, <<405, 405, 1, 97>>, <<409, 409, 1, -1>>,
       <<410, 410, 1, 163>>, <<414, 414, 1, 130>>, <<417, 421, 2, -1>>,
       <<424, 424, 1, -1>>, <<429, 429, 1, -1>>, <<432, 432, 1, -1>>,
       <<436, 438, 2, -1>>, <<441, 441, 1, -1>>, <<445, 445, 1, -1>>,
       <<447, 447, 1, 56>>, <<453, 453, 1, -1>>, <<454, 454, 1, -2>>,
       <<456, 456, 1, -1>>, <<457, 457, 1, -2>>, <<459, 459, 1, -1>>,
       <<460, 460, 1, -2>>, <<462, 476, 2, -1>>, <<477, 477, 1, -79>>,
       <<479, 495, 2, -1>>, <<498, 498, 1, -1>>, <<499, 499, 1, -2>>,
       <<501, 501, 1, -1>>, <<505, 543, 2, -1>>, <<547, 563, 2, -1>>,
       <<572, 572, 1, -1>>, <<575, 576, 1, 10815>>, <<578, 578, 1, -1>>,
       <<583, 591, 2, -1>>, <<592, 592, 1, 10783>>, <<593, 593, 1, 10780>>,
       <<594, 594, 1, 10782>>, <<595, 595, 1, -210>>, <<596, 596, 1, -206>>,
       <<598, 599, 1, -205>>, <<601, 601, 1, -202>>, <<603, 603, 1, -203>>,
       <<604, 604, 1, 42319>>, <<608, 608, 1, -205>>,
       <<609, 609, 1, 42315>>, <<611, 611, 1, -207>>,
       <<613, 613, 1, 42280>>, <<614, 614, 1, 42308>>,
       <<616, 616, 1, -209>>, <<617, 617, 1, -211>>, <<618, 618, 1, 42308>>,
       <<619, 619, 1, 10743>>, <<620, 620, 1, 42305>>,
       <<623, 623, 1, -211>>, <<625, 625, 1, 10749>>, <<626, 626, 1, -213>>,
       <<629, 629, 1, -214>>, <<637, 637, 1, 10727>>, <<640, 640, 1, -218>>,
       <<642, 642, 1, 42307>>, <<643, 643, 1, -218>>,
       <<647, 647, 1, 42282>>, <<648, 648, 1, -218>>, <<649, 649, 1, -69>>,
       <<650, 651, 1, -217>>, <<652, 652, 1, -71>>, <<658, 658, 1, -219>>,
       <<669, 669, 1, 42261>>, <<670, 670, 1, 42258>>, <<837, 837, 1, 84>>,
       <<881, 883, 2, -1>>, <<887, 887, 1, -1>>, <<891, 893, 1, 130>>,
       <<940, 940, 1, -38>>, <<941, 943, 1, -37>>, <<945, 961, 1, -32>>,
       <<962, 962, 1, -31>>, <<963, 971, 1, -32>>, <<972, 972, 1, -64>>,
       <<973, 974, 1, -63>>, <<976, 976, 1, -62>>, <<977, 977, 1, -57>>,
       <<981, 981, 1, -47>>, <<982, 982, 1, -54>>, <<983, 983, 1, -8>>,
       <<985, 1007, 2, -1>>, <<1008, 1008, 1, -86>>, <<1009, 1009, 1, -80>>,
       <<1010, 1010, 1, 7>>, <<1011, 1011, 1, -116>>,
       <<1013, 1013, 1, -96>>, <<1016, 1016, 1, -1>>, <<1019, 1019, 1, -1>>,
       <<1072, 1103, 1, -32>>, <<1104, 1119, 1, -80>>,
       <<1121, 1153, 2, -1>>, <<1163, 1215, 2, -1>>, <<1218, 1230, 2, -1>>,
       <<1231, 1231, 1, -15>>, <<1233, 1327, 2, -1>>,
       <<1377, 1414, 1, -48>>, <<4304, 4346, 1, 3008>>,
       <<4349, 4351, 1, 3008>>, <<5112, 5117, 1, -8>>,
       <<7296, 7296, 1, -6254>>, <<7297, 7297, 1, -6253>>,
       <<7298, 7298, 1, -6244>>, <<7299, 7300, 1, -6242>>,
       <<7301, 7301, 1, -6243>>, <<7302, 7302, 1, -6236>>,
       <<7303, 7303, 1, -6181>>, <<7304, 7304, 1, 35266>>,
       <<7545, 7545, 1, 35332>>, <<7549, 7549, 1, 3814>>,
       <<7566, 7566, 1, 35384>>, <<7681, 7829, 2, -1>>,
       <<7835, 7835, 1, -59>>, <<7841, 7935, 2, -1>>, <<7936, 7943, 1, 8>>,
       <<7952, 7957, 1, 8>>, <<7968, 7975, 1, 8>>, <<7984, 7991, 1, 8>>,
       <<8000, 8005, 1, 8>>, <<8017, 8023, 2, 8>>, <<8032, 8039, 1, 8>>,
       <<8048, 8049, 1, 74>>, <<8050, 8053, 1, 86>>, <<8054, 8055, 1, 100>>,
       <<8056, 8057, 1, 128>>, <<8058, 8059, 1, 112>>,
       <<8060, 8061, 1, 126>>, <<8112, 8113, 1, 8>>,
       <<8126, 8126, 1, -7205>>, <<8144, 8145, 1, 8>>, <<8160, 8161, 1, 8>>,
       <<8165, 8165, 1, 7>>, <<8526, 8526, 1, -28>>, <<8560, 8575, 1, -16>>,
       <<8580, 8580, 1, -1>>, <<9424, 9449, 1, -26>>,
       <<11312, 11359, 1, -48>>, <<11361, 11361, 1, -1>>,
       <<11365, 11365, 1, -10795>>, <<11366, 11366, 1, -10792>>,
       <<11368, 11372, 2, -1>>, <<11379, 11379, 1, -1>>,
       <<11382, 11382, 1, -1>>, <<11393, 11491, 2, -1>>,
       <<11500, 11502, 2, -1>>, <<11507, 11507, 1, -1>>,
       <<11520, 11557, 1, -7264>>, <<11559, 11559, 1, -7264>>,
       <<11565, 11565, 1, -7264>>, <<42561, 42605, 2, -1>>,
       <<42625, 42651, 2, -1>>, <<42787, 42799, 2, -1>>,
       <<42803, 42863, 2, -1>>, <<42874, 42876, 2, -1>>,
       <<42879, 42887, 2, -1>>, <<42892, 42892, 1, -1>>,
       <<42897, 42899, 2, -1>>, <<42900, 42900, 1, 48>>,
       <<42903, 42921, 2, -1>>, <<42933, 42947, 2, -1>>,
       <<42952, 42954, 2, -1>>, <<42961, 42961, 1, -1>>,
       <<42967, 42969, 2, -1>>, <<42998, 42998, 1, -1>>,
       <<43859, 43859, 1, -928>>, <<43888, 43967, 1, -38864>>,
       <<65345, 65370, 1, -32>>, <<66600, 66639, 1, -40>>,
       <<66776, 66811, 1, -40>>, <<66967, 66977, 1, -39>>,
       <<66979, 66993, 1, -39>>, <<66995, 67001, 1, -39>>,
       <<67003, 67004, 1, -39>>, <<68800, 68850, 1, -64>>,
       <<71872, 71903, 1, -32>>, <<93792, 93823, 1, -32>>,
       <<125218, 125251, 1, -34>> >>

\* str.upper() of a code point whose upper case is several code points
UpperFull ==
    << <<223, <<83, 83>>>>, <<329, <<700, 78>>>>, <<496, <<74, 780>>>>,
       <<912, <<921, 776, 769>>>>, <<944, <<933, 776, 769>>>>,
       <<1415, <<1333, 1362>>>>, <<7830, <<72, 817>>>>,
       <<7831, <<84, 776>>>>, <<7832, <<87, 778>>>>, <<7833, <<89, 778>>>>,
       <<7834, <<65, 702>>>>, <<8016, <<933, 787>>>>,
       <<8018, <<933, 787, 768>>>>, <<8020, <<933, 787, 769>>>>,
       <<8022, <<933, 787, 834>>>>, <<8064, <<7944, 921>>>>,
       <<8065, <<7945, 921>>>>, <<8066, <<7946, 921>>>>,
       <<8067, <<7947, 921>>>>, <<8068, <<7948, 921>>>>,
       <<8069, <<7949, 921>>>>, <<8070, <<7950, 921>>>>,
       <<8071, <<7951, 921>>>>, <<8072, <<7944, 921>>>>,
       <<8073, <<7945, 921>>>>, <<8074, <<7946, 921>>>>,
       <<8075, <<7947, 921>>>>, <<8076, <<7948, 921>>>>,
       <<8077, <<7949, 921>>>>, <<8078, <<7950, 921>>>>,
       <<8079, <<7951, 921>>>>, <<8080, <<7976, 921>>>>,
       <<8081, <<7977, 921>>>>, <<8082, <<7978, 921>>>>,
       <<8083, <<7979, 921>>>>, <<8084, <<7980, 921>>>>,
       <<8085, <<7981, 921>>>>, <<8086, <<7982, 921>>>>,
       <<8087, <<7983, 921>>>>, <<8088, <<7976, 921>>>>,
       <<8089, <<7977, 921>>>>, <<8090, <<7978, 921>>>>,
       <<8091, <<7979, 921>>>>, <<8092, <<7980, 921>>>>,
       <<8093, <<7981, 921>>>>, <<8094, <<7982, 921>>>>,
       <<8095, <<7983, 921>>>>, <<8096, <<8040, 921>>>>,
       <<8097, <<8041, 921>>>>, <<8098, <<8042, 921>>>>,
       <<8099, <<8043, 921>>>>, <<8100, <<8044, 921>>>>,
       <<8101, <<8045, 921>>>>, <<8102, <<8046, 921>>>>,
       <<8103, <<8047, 921>>>>, <<8104, <<8040, 921>>>>,
       <<8105, <<8041, 921>>>>, <<8106, <<8042, 921>>>>,
       <<8107, <<8043, 921>>>>, <<8108, <<8044, 921>>>>,
       <<8109, <<8045, 921>>>>, <<8110, <<8046, 921>>>>,
       <<8111, <<8047, 921>>>>, <<8114, <<8122, 921>>>>,
       <<8115, <<913, 921>>>>, <<8116, <<902, 921>>>>,
       <<8118, <<913, 834>>>>, <<8119, <<913, 834, 921>>>>,
       <<8124, <<913, 921>>>>, <<8130, <<8138, 921>>>>,
       <<8131, <<919, 921>>>>, <<8132, <<905, 921>>>>,
       <<8134, <<919, 834>>>>, <<8135, <<919, 834, 921>>>>,
       <<8140, <<919, 921>>>>, <<8146, <<921, 776, 768>>>>,
       <<8147, <<921, 776, 769>>>>, <<8150, <<921, 834>>>>,
       <<8151, <<921, 776, 834>>>>, <<8162, <<933, 776, 768>>>>,
       <<8163, <<933, 776, 769>>>>, <<8164, <<929, 787>>>>,
       <<8166, <<933, 834>>>>, <<8167, <<933, 776, 834>>>>,
       <<8178, <<8186, 921>>>>, <<8179, <<937, 921>>>>,
       <<8180, <<911, 921>>>>, <<8182, <<937, 834>>>>,
       <<8183, <<937, 834, 921>>>>, <<8188, <<937, 921>>>>,
       <<64256, <<70, 70>>>>, <<64257, <<70, 73>>>>, <<64258, <<70, 76>>>>,
       <<64259, <<70, 70, 73>>>>, <<64260, <<70, 70, 76>>>>,
       <<64261, <<83, 84>>>>, <<64262, <<83, 84>>>>,
       <<64275, <<1348, 1350>>>>, <<64276, <<1348, 1333>>>>,
       <<64277, <<1348, 1339>>>>, <<64278, <<1358, 1350>>>>,
       <<64279, <<1348, 1341>>>> >>

\* the cased code points (lower, upper or title case), as ranges <<lo, hi>>
CasedRanges ==
    << <<65, 90>>, <<97, 122>>, <<170, 170>>, <<181, 181>>, <<186, 186>>,
       <<192, 214>>, <<216, 246>>, <<248, 442>>, <<444, 447>>, <<452, 659>>,
       <<661, 696>>, <<704, 705>>, <<736, 740>>, <<837, 837>>, <<880, 883>>,
       <<886, 887>>, <<890, 893>>, <<895, 895>>, <<902, 902>>, <<904, 906>>,
       <<908, 908>>, <<910, 929>>, <<931, 1013>>, <<1015, 1153>>,
       <<1162, 1327>>, <<1329, 1366>>, <<1376, 1416>>, <<4256, 4293>>,
       <<4295, 4295>>, <<4301, 4301>>, <<4304, 4346>>, <<4349, 4351>>,
       <<5024, 5109>>, <<5112, 5117>>, <<7296, 7304>>, <<7312, 7354>>,
       <<7357, 7359>>, <<7424, 7615>>, <<7680, 7957>>, <<7960, 7965>>,
       <<7968, 8005>>, <<8008, 8013>>, <<8016, 8023>>, <<8025, 8025>>,
       <<8027, 8027>>, <<8029, 8029>>, <<8031, 8061>>, <<8064, 8116>>,
       <<8118, 8124>>, <<8126, 8126>>, <<8130, 8132>>, <<8134, 8140>>,
       <<8144, 8147>>, <<8150, 8155>>, <<8160, 8172>>, <<8178, 8180>>,
       <<8182, 8188>>, <<8305, 8305>>, <<8319, 8319>>, <<8336, 8348>>,
       <<8450, 8450>>, <<8455, 8455>>, <<8458, 8467>>, <<8469, 8469>>,
       <<8473, 8477>>, <<8484, 8484>>, <<8486, 8486>>, <<8488, 8488>>,
       <<8490, 8493>>, <<8495, 8500>>, <<8505, 8505>>, <<8508, 8511>>,
       <<8517, 8521>>, <<8526, 8526>>, <<8544, 8575>>, <<8579, 8580>>,
       <<9398, 9449>>, <<11264, 11492>>, <<11499, 11502>>, <<11506, 11507>>,
       <<11520, 11557>>, <<11559, 11559>>, <<11565, 11565>>,
       <<42560, 42605>>, <<42624, 42653>>, <<42786, 42887>>,
       <<42891, 42894>>, <<42896, 42954>>, <<42960, 42961>>,
       <<42963, 42963>>, <<42965, 42969>>, <<42997, 42998>>,
       <<43000, 43002>>, <<43824, 43866>>, <<43868, 43880>>,
       <<43888, 43967>>, <<64256, 64262>>, <<64275, 64279>>,
       <<65313, 65338>>, <<65345, 65370>>, <<66560, 66639>>,
       <<66736, 66771>>, <<66776, 66811>>, <<66928, 66938>>,
       <<66940, 66954>>, <<66956, 66962>>, <<66964, 66965>>,
       <<66967, 66977>>, <<66979, 66993>>, <<66995, 67001>>,
       <<67003, 67004>>, <<67456, 67456>>, <<67459, 67461>>,
       <<67463, 67504>>, <<67506, 67514>>, <<68736, 68786>>,
       <<68800, 68850>>, <<71840, 71903>>, <<93760, 93823>>,
       <<119808, 119892>>, <<119894, 119964>>, <<119966, 119967>>,
       <<119970, 119970>>, <<119973, 119974>>, <<119977, 119980>>,
       <<119982, 119993>>, <<119995, 119995>>, <<119997, 120003>>,
       <<120005, 120069>>, <<120071, 120074>>, <<120077, 120084>>,
       <<120086, 120092>>, <<120094, 120121>>, <<120123, 120126>>,
       <<120128, 120132>>, <<120134, 120134>>, <<120138, 120144>>,
       <<120146, 120485>>, <<120488, 120512>>, <<120514, 120538>>,
       <<120540, 120570>>, <<120572, 120596>>, <<120598, 120628>>,
       <<120630, 120654>>, <<120656, 120686>>, <<120688, 120712>>,
       <<120714, 120744>>, <<120746, 120770>>, <<120772, 120779>>,
       <<122624, 122633>>, <<122635, 122654>>, <<125184, 125251>>,
       <<127280, 127305>>, <<127312, 127337>>, <<127344, 127369>> >>

\* the case-ignorable code points, as ranges <<lo, hi>>
CaseIgnorableRanges ==
    << <<39, 39>>, <<46, 46>>, <<58, 58>>, <<94, 94>>, <<96, 96>>,
       <<168, 168>>, <<173, 173>>, <<175, 175>>, <<180, 180>>, <<183, 184>>,
       <<688, 879>>, <<884, 885>>, <<890, 890>>, <<900, 901>>, <<903, 903>>,
       <<1155, 1161>>, <<1369, 1369>>, <<1375, 1375>>, <<1425, 1469>>,
       <<1471, 1471>>, <<1473, 1474>>, <<1476, 1477>>, <<1479, 1479>>,
       <<1524, 1524>>, <<1536, 1541>>, <<1552, 1562>>, <<1564, 1564>>,
       <<1600, 1600>>, <<1611, 1631>>, <<1648, 1648>>, <<1750, 1757>>,
       <<1759, 1768>>, <<1770, 1773>>, <<1807, 1807>>, <<1809, 1809>>,
       <<1840, 1866>>, <<1958, 1968>>, <<2027, 2037>>, <<2042, 2042>>,
       <<2045, 2045>>, <<2070, 2093>>, <<2137, 2139>>, <<2184, 2184>>,
       <<2192, 2193>>, <<2200, 2207>>, <<2249, 2306>>, <<2362, 2362>>,
       <<2364, 2364>>, <<2369, 2376>>, <<2381, 2381>>, <<2385, 2391>>,
       <<2402, 2403>>, <<2417, 2417>>, <<2433, 2433>>, <<2492, 2492>>,
       <<2497, 2500>>, <<2509, 2509>>, <<2530, 2531>>, <<2558, 2558>>,
       <<2561, 2562>>, <<2620, 2620>>, <<2625, 2626>>, <<2631, 2632>>,
       <<2635, 2637>>, <<2641, 2641>>, <<2672, 2673>>, <<2677, 2677>>,
       <<2689, 2690>>, <<2748, 2748>>, <<2753, 2757>>, <<2759, 2760>>,
       <<2765, 2765>>, <<2786, 2787>>, <<2810, 2815>>, <<2817, 2817>>,
       <<2876, 2876>>, <<2879, 2879>>, <<2881, 2884>>, <<2893, 2893>>,
       <<2901, 2902>>, <<2914, 2915>>, <<2946, 2946>>, <<3008, 3008>>,
       <<3021, 3021>>, <<3072, 3072>>, <<3076, 3076>>, <<3132, 3132>>,
       <<3134, 3136>>, <<3142, 3144>>, <<3146, 3149>>, <<3157, 3158>>,
       <<3170, 3171>>, <<3201, 3201>>, <<3260, 3260>>, <<3263, 3263>>,
       <<3270, 3270>>, <<3276, 3277>>, <<3298, 3299>>, <<3328, 3329>>,
       <<3387, 3388>>, <<3393, 3396>>, <<3405, 3405>>, <<3426, 3427>>,
       <<3457, 3457>>, <<3530, 3530>>, <<3538, 3540>>, <<3542, 3542>>,
       <<3633, 3633>>, <<3636, 3642>>, <<3654, 3662>>, <<3761, 3761>>,
       <<3764, 3772>>, <<3782, 3782>>, <<3784, 3789>>, <<3864, 3865>>,
       <<3893, 3893>>, <<3895, 3895>>, <<3897, 3897>>, <<3953, 3966>>,
       <<3968, 3972>>, <<3974, 3975>>, <<3981, 3991>>, <<3993, 4028>>,
       <<4038, 4038>>, <<4141, 4144>>, <<4146, 4151>>, <<4153, 4154>>,
       <<4157, 4158>>, <<4184, 4185>>, <<4190, 4192>>, <<4209, 4212>>,
       <<4226, 4226>>, <<4229, 4230>>, <<4237, 4237>>, <<4253, 4253>>,
       <<4348, 4348>>, <<4957, 4959>>, <<5906, 5908>>, <<5938, 5939>>,
       <<5970, 5971>>, <<6002, 6003>>, <<6068, 6069>>, <<6071, 6077>>,
       <<6086, 6086>>, <<6089, 6099>>, <<6103, 6103>>, <<6109, 6109>>,
       <<6155, 6159>>, <<6211, 6211>>, <<6277, 6278>>, <<6313, 6313>>,
       <<6432, 6434>>, <<6439, 6440>>, <<6450, 6450>>, <<6457, 6459>>,
       <<6679, 6680>>, <<6683, 6683>>, <<6742, 6742>>, <<6744, 6750>>,
       <<6752, 6752>>, <<6754, 6754>>, <<6757, 6764>>, <<6771, 6780>>,
       <<6783, 6783>>, <<6823, 6823>>, <<6832, 6862>>, <<6912, 6915>>,
       <<6964, 6964>>, <<6966, 6970>>, <<6972, 6972>>, <<6978, 6978>>,
       <<7019, 7027>>, <<7040, 7041>>, <<7074, 7077>>, <<7080, 7081>>,
       <<7083, 7085>>, <<7142, 7142>>, <<7144, 7145>>, <<7149, 7149>>,
       <<7151, 7153>>, <<7212, 7219>>, <<7222, 7223>>, <<7288, 7293>>,
       <<7376, 7378>>, <<7380, 7392>>, <<7394, 7400>>, <<7405, 7405>>,
       <<7412, 7412>>, <<7416, 7417>>, <<7468, 7530>>, <<7544, 7544>>,
       <<7579, 7679>>, <<8125, 8125>>, <<8127, 8129>>, <<8141, 8143>>,
       <<8157, 8159>>, <<8173, 8175>>, <<8189, 8190>>, <<8203, 8207>>,
       <<8216, 8217>>, <<8228, 8228>>, <<8231, 8231>>, <<8234, 8238>>,
       <<8288, 8292>>, <<8294, 8303>>, <<8305, 8305>>, <<8319, 8319>>,
       <<8336, 8348>>, <<8400, 8432>>, <<11388, 11389>>, <<11503, 11505>>,
       <<11631, 11631>>, <<11647, 11647>>, <<11744, 11775>>,
       <<11823, 11823>>, <<12293, 12293>>, <<12330, 12333>>,
       <<12337, 12341>>, <<12347, 12347>>, <<12441, 12446>>,
       <<12540, 12542>>, <<40981, 40981>>, <<42232, 42237>>,
       <<42508, 42508>>, <<42607, 42610>>, <<42612, 42621>>,
       <<42623, 42623>>, <<42652, 42655>>, <<42736, 42737>>,
       <<42752, 42785>>, <<42864, 42864>>, <<42888, 42890>>,
       <<42994, 42996>>, <<43000, 43001>>, <<43010, 43010>>,
       <<43014, 43014>>, <<43019, 43019>>, <<43045, 43046>>,
       <<43052, 43052>>, <<43204, 43205>>, <<43232, 43249>>,
       <<43263, 43263>>, <<43302, 43309>>, <<43335, 43345>>,
       <<43392, 43394>>, <<43443, 43443>>, <<43446, 43449>>,
       <<43452, 43453>>, <<43471, 43471>>, <<43493, 43494>>,
       <<43561, 43566>>, <<43569, 43570>>, <<43573, 43574>>,
       <<43587, 43587>>, <<43596, 43596>>, <<43632, 43632>>,
       <<43644, 43644>>, <<43696, 43696>>, <<43698, 43700>>,
       <<43703, 43704>>, <<43710, 43711>>, <<43713, 43713>>,
       <<43741, 43741>>, <<43756, 43757>>, <<43763, 43764>>,
       <<43766, 43766>>, <<43867, 43871>>, <<43881, 43883>>,
       <<44005, 44005>>, <<44008, 44008>>, <<44013, 44013>>,
       <<64286, 64286>>, <<64434, 64450>>, <<65024, 65039>>,
       <<65043, 65043>>, <<65056, 65071>>, <<65106, 65106>>,
       <<65109, 65109>>, <<65279, 65279>>, <<65287, 65287>>,
       <<65294, 65294>>, <<65306, 65306>>, <<65342, 65342>>,
       <<65344, 65344>>, <<65392, 65392>>, <<65438, 65439>>,
       <<65507, 65507>>, <<65529, 65531>>, <<66045, 66045>>,
       <<66272, 66272>>, <<66422, 66426>>, <<67456, 67461>>,
       <<67463, 67504>>, <<67506, 67514>>, <<68097, 68099>>,
       <<68101, 68102>>, <<68108, 68111>>, <<68152, 68154>>,
       <<68159, 68159>>, <<68325, 68326>>, <<68900, 68903>>,
       <<69291, 69292>>, <<69446, 69456>>, <<69506, 69509>>,
       <<69633, 69633>>, <<69688, 69702>>, <<69744, 69744>>,
       <<69747, 69748>>, <<69759, 69761>>, <<69811, 69814>>,
       <<69817, 69818>>, <<69821, 69821>>, <<69826, 69826>>,
       <<69837, 69837>>, <<69888, 69890>>, <<69927, 69931>>,
       <<69933, 69940>>, <<70003, 70003>>, <<70016, 70017>>,
       <<70070, 70078>>, <<70089, 70092>>, <<70095, 70095>>,
       <<70191, 70193>>, <<70196, 70196>>, <<70198, 70199>>,
       <<70206, 70206>>, <<70367, 70367>>, <<70371, 70378>>,
       <<70400, 70401>>, <<70459, 70460>>, <<70464, 70464>>,
       <<70502, 70508>>, <<70512, 70516>>, <<70712, 70719>>,
       <<70722, 70724>>, <<70726, 70726>>, <<70750, 70750>>,
       <<70835, 70840>>, <<70842, 70842>>, <<70847, 70848>>,
       <<70850, 70851>>, <<71090, 71093>>, <<71100, 71101>>,
       <<71103, 71104>>, <<71132, 71133>>, <<71219, 71226>>,
       <<71229, 71229>>, <<71231, 71232>>, <<71339, 71339>>,
       <<71341, 71341>>, <<71344, 71349>>, <<71351, 71351>>,
       <<71453, 71455>>, <<71458, 71461>>, <<71463, 71467>>,
       <<71727, 71735>>, <<71737, 71738>>, <<71995, 71996>>,
       <<71998, 71998>>, <<72003, 72003>>, <<72148, 72151>>,
       <<72154, 72155>>, <<72160, 72160>>, <<72193, 72202>>,
       <<72243, 72248>>, <<72251, 72254>>, <<72263, 72263>>,
       <<72273, 72278>>, <<72281, 72283>>, <<72330, 72342>>,
       <<72344, 72345>>, <<72752, 72758>>, <<72760, 72765>>,
       <<72767, 72767>>, <<72850, 72871>>, <<72874, 72880>>,
       <<72882, 72883>>, <<72885, 72886>>, <<73009, 73014>>,
       <<73018, 73018>>, <<73020, 73021>>, <<73023, 73029>>,
       <<73031, 73031>>, <<73104, 73105>>, <<73109, 73109>>,
       <<73111, 73111>>, <<73459, 73460>>, <<78896, 78904>>,
       <<92912, 92916>>, <<92976, 92982>>, <<92992, 92995>>,
       <<94031, 94031>>, <<94095, 94111>>, <<94176, 94177>>,
       <<94179, 94180>>, <<110576, 110579>>, <<110581, 110587>>,
       <<110589, 110590>>, <<113821, 113822>>, <<113824, 113827>>,
       <<118528, 118573>>, <<118576, 118598>>, <<119143, 119145>>,
       <<119155, 119170>>, <<119173, 119179>>, <<119210, 119213>>,
       <<119362, 119364>>, <<121344, 121398>>, <<121403, 121452>>,
       <<121461, 121461>>, <<121476, 121476>>, <<121499, 121503>>,
       <<121505, 121519>>, <<122880, 122886>>, <<122888, 122904>>,
       <<122907, 122913>>, <<122915, 122916>>, <<122918, 122922>>,
       <<123184, 123197>>, <<123566, 123566>>, <<123628, 123631>>,
       <<125136, 125142>>, <<125252, 125259>>, <<127995, 127999>>,
       <<917505, 917505>>, <<917536, 917631>>, <<917760, 917999>> >>

\* the characters str.strip() removes (str.isspace)
Whitespace ==
    {9, 10, 11, 12, 13, 28, 29, 30, 31, 32, 133, 160, 5760} \cup (8192..8202)
        \cup {8232, 8233, 8239, 8287, 12288}

\* the d of the run <<lo, hi, step, d>> that holds c, 0 when no run does
RunDelta(runs, c) ==
    LET holds(i) == /\ runs[i][1] <= c /\ c <= runs[i][2]
                    /\ (c - runs[i][1]) % runs[i][3] = 0
    IN  IF \E i \in 1..Len(runs) : holds(i)
        THEN runs[CHOOSE i \in 1..Len(runs) : holds(i)][4]
        ELSE 0

\* the entry of c in a table of one-to-many mappings, <<>> when it has none
FullOf(table, c) ==
    IF \E i \in 1..Len(table) : table[i][1] = c
    THEN table[CHOOSE i \in 1..Len(table) : table[i][1] = c][2]
    ELSE <<>>

RECURSIVE Flatten(_)
Flatten(ss) == IF ss = <<>> THEN <<>> ELSE Head(ss) \o Flatten(Tail(ss))

\* str.lower() of a one-character string: the characters of the result
\* (only U+0130 has a lower case of several characters)
lower_char(c) ==
    IF c \in 65..90 THEN << c + 32 >>
    ELSE IF c < 128 THEN << c >>
    ELSE IF c = 304 THEN << 105, 775 >>
    ELSE << c + RunDelta(LowerRuns, c) >>

\* str.upper() of a one-character string: the characters of the result
upper_char(c) ==
    IF c \in 97..122 THEN << c - 32 >>
    ELSE IF c < 128 THEN << c >>
    ELSE IF FullOf(UpperFull, c) # <<>> THEN FullOf(UpperFull, c)
    ELSE << c + RunDelta(UpperRuns, c) >>

\* str.lower(): character by character; a capital sigma becomes a final
\* sigma at the end of a word: when a cased character comes before it and
\* none after it, case-ignorable characters skipped on both sides
lower(s) ==
    LET InRanges(ranges, c) ==
            \E i \in 1..Len(ranges) : ranges[i][1] <= c /\ c <= ranges[i][2]
        final_sigma(i) ==
            LET before == { j \in 1..(i - 1) : ~InRanges(CaseIgnorableRanges, s[j]) }
                after == { j \in (i + 1)..Len(s) : ~InRanges(CaseIgnorableRanges, s[j]) }
                last == CHOOSE j \in before : \A k \in before : k <= j
                first == CHOOSE j \in after : \A k \in after : j <= k
            IN  /\ before # {} /\ InRanges(CasedRanges, s[last])
                /\ after = {} \/ ~InRanges(CasedRanges, s[first])
    IN  Flatten([i \in 1..Len(s) |->
                    IF s[i] = 931 THEN << IF final_sigma(i) THEN 962 ELSE 963 >>
                    ELSE lower_char(s[i])])

\* str.upper(): character by character
upper(s) == Flatten([i \in 1..Len(s) |-> upper_char(s[i])])

\* str.strip(): leading and trailing whitespace removed
RECURSIVE lstrip(_)
lstrip(s) == IF s # <<>> /\ Head(s) \in Whitespace THEN lstrip(Tail(s)) ELSE s

RECURSIVE rstrip(_)
rstrip(s) == IF s # <<>> /\ s[Len(s)] \in Whitespace
             THEN rstrip(SubSeq(s, 1, Len(s) - 1)) ELSE s

strip(s) == rstrip(lstrip(s))

\* `c in s` for a one-character c
char_in(c, s) == \E i \in 1..Len(s) : s[i] = c

CONFIRM_WORD == Str(<<"C","O","N","F","I","R","M">>)

-----------------------------------------------------------------------------
(* Number formatting *)

\* f"{v:.3f}" : the number written with three decimals, as thousandths
Fmt3(v) == v * 1000

\* f"{v:.1f}" : the number written with one decimal, as tenths
Fmt1(v) == v * 10

\* f"{velocity_mm_s:.3f}" of a speed s/SpeedDen, s >= 0 : thousandths, rounded
Fmt3Speed(s) == (2 * s * 1000 + SpeedDen) \div (2 * SpeedDen)

\* the speeds s of 1..MaxSpeed, as floats s/SpeedDen, whose product with
\* 60.0 is the float just below the whole number s/2 (2.05 * 60.0 is
\* 122.99999999999999)
FeedShort ==
    { 246, 490, 492, 494, 980, 984, 988, 1010, 1014, 1018, 1930, 1938, 1946,
      1960, 1968, 1976, 1990, 1998, 2006, 2020, 2028, 2036, 3846, 3860, 3862,
      3876, 3890, 3892, 3906, 3920, 3922, 3936, 3950, 3952, 3966, 3980, 3982,
      3996, 4010, 4012, 4026, 4040, 4042, 4056, 4070, 4072, 4086 }

\* int(speed_mm_s * 60.0) of the float s/SpeedDen, |s| <= MaxSpeed : the
\* product in binary floating point, truncated toward zero
Feed(s) ==
    LET n == IF s >= 0 THEN s ELSE -s
        f == IF n \in FeedShort THEN (n * 60) \div SpeedDen - 1
             ELSE (n * 60) \div SpeedDen
    IN  IF s >= 0 THEN f ELSE -f

-----------------------------------------------------------------------------
(* Validation helpers *)

\* _range_check passes (does not raise)
range_check(v, lo, hi) == ~(v < lo \/ v > hi)

\* Printer._validate_attachment_box : "ok" or the axis whose min exceeds its max
validate_attachment_box(c) ==
    IF c.attach_min_x > c.attach_max_x THEN "attach_min_x must be <= attach_max_x"
    ELSE IF c.attach_min_y > c.attach_max_y THEN "attach_min_y must be <= attach_max_y"
    ELSE IF c.attach_min_z > c.attach_max_z THEN "attach_min_z must be <= attach_max_z"
    ELSE "ok"

\* faulty variant: only the attach_min extremes are range-checked
check_xyz_min_extremes_only(lim, c, p) ==
    IF lim = None THEN "Limits are not initialized"
    ELSE IF ~range_check(p[1] + c.attach_min_x, lim[1][1], lim[1][2]) THEN "X+attach_min_x"
    ELSE IF ~range_check(p[2] + c.attach_min_y, lim[2][1], lim[2][2]) THEN "Y+attach_min_y"
    ELSE IF ~range_check(p[3] + c.attach_min_z, lim[3][1], lim[3][2]) THEN "Z+attach_min_z"
    ELSE "ok"

\* faulty variant: the Y checks are made before the X checks
check_xyz_y_before_x(lim, c, p) ==
    IF lim = None THEN "Limits are not initialized"
    ELSE IF ~range_check(p[2] + c.attach_min_y, lim[2][1], lim[2][2]) THEN "Y+attach_min_y"
    ELSE IF ~range_check(p[2] + c.attach_max_y, lim[2][1], lim[2][2]) THEN "Y+attach_max_y"
    ELSE IF ~range_check(p[1] + c.attach_min_x, lim[1][1], lim[1][2]) THEN "X+attach_min_x"
    ELSE IF ~range_check(p[1] + c.attach_max_x, lim[1][1], lim[1][2]) THEN "X+attach_max_x"
    ELSE IF ~range_check(p[3] + c.attach_min_z, lim[3][1], lim[3][2]) THEN "Z+attach_min_z"
    ELSE IF ~range_check(p[3] + c.attach_max_z, lim[3][1], lim[3][2]) THEN "Z+attach_max_z"
    ELSE "ok"

\* faulty variant: the Z+attach_max_z check is passed its bounds in the wrong order
check_xyz_z_bounds_swapped(lim, c, p) ==
    IF lim = None THEN "Limits are not initialized"
    ELSE IF ~range_check(p[1] + c.attach_min_x, lim[1][1], lim[1][2]) THEN "X+attach_min_x"
    ELSE IF ~range_check(p[1] + c.attach_max_x, lim[1][1], lim[1][2]) THEN "X+attach_max_x"
    ELSE IF ~range_check(p[2] + c.attach_min_y, lim[2][1], lim[2][2]) THEN "Y+attach_min_y"
    ELSE IF ~range_check(p[2] + c.attach_max_y, lim[2][1], lim[2][2]) THEN "Y+attach_max_y"
    ELSE IF ~range_check(p[3] + c.attach_min_z, lim[3][1], lim[3][2]) THEN "Z+attach_min_z"
    ELSE IF ~range_check(p[3] + c.attach_max_z, lim[3][2], lim[3][1]) THEN "Z+attach_max_z"
    ELSE "ok"

\* Printer._check_xyz_with_attachment : "ok" or the name in the PrinterError raised
check_xyz_with_attachment(lim, c, p) ==
    IF lim = None THEN "Limits are not initialized"
    ELSE LET xmin == lim[1][1]  xmax == lim[1][2]
             ymin == lim[2][1]  ymax == lim[2][2]
             zmin == lim[3][1]  zmax == lim[3][2]
             x0 == p[1] + c.attach_min_x
             x1 == p[1] + c.attach_max_x
             y0 == p[2] + c.attach_min_y
             y1 == p[2] + c.attach_max_y
             z0 == p[3] + c.attach_min_z
             z1 == p[3] + c.attach_max_z
         IN  IF ~range_check(x0, xmin, xmax) THEN "X+attach_min_x"
             ELSE IF ~range_check(x1, xmin, xmax) THEN "X+attach_max_x"
             ELSE IF ~range_check(y0, ymin, ymax) THEN "Y+attach_min_y"
             ELSE IF ~range_check(y1, ymin, ymax) THEN "Y+attach_max_y"
             ELSE IF ~range_check(z0, zmin, zmax) THEN "Z+attach_min_z"
             ELSE IF ~range_check(z1, zmin, zmax) THEN "Z+attach_max_z"
             ELSE "ok"

\* _check_xyz_with_attachment at the point p / den (a float with a fractional
\* part when den > 1): its comparisons, both sides multiplied by den
check_xyz_over(lim, c, p, den) ==
    IF lim = None THEN check_xyz_with_attachment(lim, c, p)
    ELSE check_xyz_with_attachment(
            [i \in 1..3 |-> << den * lim[i][1], den * lim[i][2] >>],
            [c EXCEPT !.attach_min_x = den * @, !.attach_max_x = den * @,
                      !.attach_min_y = den * @, !.attach_max_y = den * @,
                      !.attach_min_z = den * @, !.attach_max_z = den * @],
            p)

\* faulty variant: the z_air_min floor is not checked
validate_point_air_no_floor(lim, c, p) ==
    IF ~range_check(p[1], lim[1][1], lim[1][2]) THEN "X"
    ELSE IF ~range_check(p[2], lim[2][1], lim[2][2]) THEN "Y"
    ELSE IF ~range_check(p[3], lim[3][1], lim[3][2]) THEN "Z"
    ELSE "ok"

\* K2Pro.validate_point_air after get_limits() returned lim
validate_point_air(lim, c, p) ==
    IF ~range_check(p[1], lim[1][1], lim[1][2]) THEN "X"
    ELSE IF ~range_check(p[2], lim[2][1], lim[2][2]) THEN "Y"
    ELSE IF ~range_check(p[3], lim[3][1], lim[3][2]) THEN "Z"
    ELSE IF p[3] < c.z_air_min THEN "z_air_min"
    ELSE "ok"

\* _ensure_homed(axes) : a.upper() of the first character a of axes.lower()
\* that is not in homed.lower(), or None when every one of them is
RECURSIVE first_not_homed(_, _)
first_not_homed(axes, homed) ==
    IF axes = <<>> THEN None
    ELSE IF ~char_in(Head(axes), lower(homed)) THEN upper_char(Head(axes))
    ELSE first_not_homed(Tail(axes), homed)

\* faulty variant: the last axis of `axes` is not looked at
ensure_homed_last_axis_skipped(axes, homed) ==
    first_not_homed(lower(SubSeq(axes, 1, Len(axes) - 1)), homed)

ensure_homed(axes, homed) == first_not_homed(lower(axes), homed)

-----------------------------------------------------------------------------
(* G-code scripts: sequences of lines; an absent word of a G1 line is {} *)

G90 == [g |-> "G90"]
G91 == [g |-> "G91"]
M400 == [g |-> "M400"]
M140(t) == [g |-> "M140", S |-> Fmt1(t)]
M190(t) == [g |-> "M190", S |-> Fmt1(t)]
SET_HEATER_TEMPERATURE(t) ==
    [g |-> "SET_HEATER_TEMPERATURE", HEATER |-> "chamber", TARGET |-> Fmt1(t)]
SET_TEMPERATURE_FAN_TARGET(t) ==
    [g |-> "SET_TEMPERATURE_FAN_TARGET", TEMPERATURE_FAN |-> "chamber",
     TARGET |-> Fmt1(t)]
SET_VELOCITY_LIMIT(v, acc) ==
    [g |-> "SET_VELOCITY_LIMIT", VELOCITY |-> Fmt3Speed(v), ACCEL |-> Fmt1(acc)]
G28(axes) == [g |-> "G28", axes |-> upper(axes)]
G1(x, y, z, f) == [g |-> "G1", X |-> x, Y |-> y, Z |-> z, F |-> f]

\* Printer.move_absolute / K2Pro.move_absolute_air : the script sent
move_absolute_script(p, speed) ==
    << G90, G1({Fmt3(p[1])}, {Fmt3(p[2])}, {Fmt3(p[3])}, Feed(speed)) >>

\* faulty variant: the travel along Y is made before the lowering
safe_y_pass_script_travel_first(c, x, y_start, y_end, z_safe, z_contact, travel, approach) ==
    << G90,
       G1({}, {}, {Fmt3(z_safe)}, Feed(c.z_speed_mm_s)),
       G1({Fmt3(x)}, {Fmt3(y_start)}, {}, Feed(approach)),
       G1({}, {Fmt3(y_end)}, {}, Feed(travel)),
       G1({}, {}, {Fmt3(z_contact)}, Feed(c.z_speed_mm_s)),
       G1({}, {}, {Fmt3(z_safe)}, Feed(c.z_speed_mm_s)) >>

\* Printer.safe_y_pass : the script sent
safe_y_pass_script(c, x, y_start, y_end, z_safe, z_contact, travel, approach) ==
    << G90,
       G1({}, {}, {Fmt3(z_safe)}, Feed(c.z_speed_mm_s)),
       G1({Fmt3(x)}, {Fmt3(y_start)}, {}, Feed(approach)),
       G1({}, {}, {Fmt3(z_contact)}, Feed(c.z_speed_mm_s)),
       G1({}, {Fmt3(y_end)}, {}, Feed(travel)),
       G1({}, {}, {Fmt3(z_safe)}, Feed(c.z_speed_mm_s)) >>

\* K2Pro.move_relative : `parts` holds a word for each non-zero delta
move_relative_script(dx, dy, dz, feedrate) ==
    << G91,
       G1(IF dx # 0 THEN {Fmt3(dx)} ELSE {},
          IF dy # 0 THEN {Fmt3(dy)} ELSE {},
          IF dz # 0 THEN {Fmt3(dz)} ELSE {},
          feedrate),
       G90 >>

\* K2Pro.move_line_air : the script sent
move_line_air_script(p1, p2, speed) ==
    << G90,
       G1({Fmt3(p1[1])}, {Fmt3(p1[2])}, {Fmt3(p1[3])}, Feed(speed)),
       G1({Fmt3(p2[1])}, {Fmt3(p2[2])}, {Fmt3(p2[3])}, Feed(speed)) >>

\* K2Pro.move_xy_air : the script sent
move_xy_air_script(x, y, z, speed) ==
    << G90,
       G1({}, {}, {Fmt3(z)}, XyAirZFeed),
       G1({Fmt3(x)}, {Fmt3(y)}, {}, Feed(speed)) >>

-----------------------------------------------------------------------------
(* Inputs: configurations, arguments and answers of the remote printer *)

PrinterConfig(mnx, mxx, mny, mxy, mnz, mxz) ==
    [attach_min_x |-> mnx, attach_max_x |-> mxx,
     attach_min_y |-> mny, attach_max_y |-> mxy,
     attach_min_z |-> mnz, attach_max_z |-> mxz,
     z_speed_mm_s |-> ZSpeedDefault, timeout |-> HttpTimeoutS]

PrinterConfigs ==
    { PrinterConfig(0, 0, 0, 0, 0, 0),
      PrinterConfig(-5, 30, 0, 20, -12, 0),
      PrinterConfig(10, 30, -20, -20, 0, 15),
      PrinterConfig(5, -5, 0, 0, 0, 0),
      [PrinterConfig(0, 0, 0, 0, 0, 0) EXCEPT !.timeout = ShortTimeoutS] }

K2ProConfigs == { [z_air_min |-> 30], [z_air_min |-> 15] }

LimitsA == << <<0, 400>>, <<0, 400>>, <<0, 300>> >>
LimitsB == << <<0, 235>>, <<0, 235>>, <<0, 250>> >>

XS == {0, 200, 390}
YS == {0, 200, 390}
ZS == {5, 50, 300}
Points == XS \X YS \X ZS
\* 0, 1/120, 2.05 and 20 mm/s
Speeds == {0, 1, 246, HomeSpeed}

\* the targets of the moves called with wait=True
WaitedPoints == { <<200, 200, 50>> }

xyz == Str(<<"x", "y", "z">>)

\* GET /printer/info
InfoResponses ==
    { [ok |-> FALSE] } \cup { [ok |-> TRUE, state |-> s] : s \in {"ready", "shutdown"} }

\* GET /printer/objects/query, read for toolhead.homed_axes
HomedResponses ==
    { [ok |-> FALSE] } \cup
    { [ok |-> TRUE, homed_axes |-> h] :
        h \in { Str(<<"x","y","z">>), Str(<<"X","Y","Z">>), Str(<<"x","y">>), <<>> } }

\* GET /printer/objects/query, read for toolhead.axis_minimum / axis_maximum
LimitsResponses ==
    { [ok |-> FALSE], [ok |-> TRUE, present |-> FALSE] } \cup
    { [ok |-> TRUE, present |-> TRUE, limits |-> l] : l \in {LimitsA, LimitsB} }

\* GET /printer/objects/query, read for toolhead.position
PositionResponses ==
    { [ok |-> FALSE], [ok |-> TRUE, present |-> FALSE] } \cup
    { [ok |-> TRUE, present |-> TRUE, z |-> z] : z \in {5, 50, 350} }

\* GET /printer/objects/query, read for toolhead.moving
MovingResponses ==
    { [ok |-> FALSE] } \cup
    { [ok |-> TRUE, moving |-> v] : v \in {"true", "false", "absent"} }

\* what the operator types at the prompt of home(); the second answer is
\* a tab and a blank, Conf, a dotless i (U+0131), rm, a blank and a no-break
\* space
Answers ==
    { Str(<<"C","O","N","F","I","R","M">>),
      <<9, 32, 67, 111, 110, 102, 305, 114, 109, 32, 160>>,
      Str(<<"C","O","N"," ","F","I","R","M">>), Str(<<"y","e","s">>), <<>> }

-----------------------------------------------------------------------------
(* Control of the call in progress *)

Idle == pc = "idle"

Goto(f, p) == /\ frame' = f /\ pc' = p /\ exc' = exc /\ msg' = msg

End(kind, message) ==
    /\ frame' = frame /\ pc' = "done" /\ exc' = kind /\ msg' = message

Returns == End("ok", "")

WaitSame == UNCHANGED <<elapsed, reads, sleeps, lastMoving>>

Call(o, f, p, args, margs) ==
    /\ Idle
    /\ op' = o /\ frame' = f /\ pc' = p /\ a' = args /\ m' = margs
    /\ log' = <<>> /\ exc' = "none" /\ msg' = ""
    /\ UNCHANGED <<obj, cfg, limits>>
    /\ WaitSame

\* t0 = time.time() on entry to wait_moves(poll_interval, timeout)
EnterWait(poll, timeout) ==
    /\ Goto("wait_moves", "poll")
    /\ m' = [poll_interval |-> poll, timeout |-> timeout]
    /\ elapsed' = 0 /\ reads' = 0 /\ sleeps' = 0 /\ lastMoving' = "none"

\* wait_moves() with its default arguments
EnterDefaultWait ==
    EnterWait(DefaultPoll,
              IF obj = "Printer" THEN PrinterWaitTimeoutS * TicksPerSec
              ELSE K2ProWaitTimeoutS * TicksPerSec)

Init ==
    /\ obj = "none" /\ cfg = None /\ limits = None
    /\ op = "none" /\ frame = "none" /\ pc = "idle"
    /\ a = None /\ m = None /\ log = <<>> /\ exc = "none" /\ msg = ""
    /\ elapsed = 0 /\ reads = 0 /\ sleeps = 0 /\ lastMoving = "none"


Keep == /\ m' = m /\ WaitSame

\* the exception propagates out of the public operation
Raise(kind, message) == End(kind, message) /\ Keep

Proceed(p) == Goto(frame, p) /\ Keep

Frozen == UNCHANGED <<obj, cfg, op, a>>

HttpError == "GET failed"
PostError == "POST failed"

Logged(e) == log' = Append(log, e)

\* send_gcode(script), and what follows when the POST is answered 2xx
SendGcode(script, then) ==
    \E ok \in BOOLEAN :
        /\ Logged([ev |-> "post", ok |-> ok, script |-> script])
        /\ IF ~ok THEN Raise("PrinterError", PostError) ELSE then

-----------------------------------------------------------------------------
(* Construction *)

\* Printer.__init__(cfg, auto_init)
Printer_init ==
    /\ Idle
    /\ \E c \in PrinterConfigs, auto \in BOOLEAN :
        /\ obj' = "Printer" /\ cfg' = c /\ limits' = None
        /\ op' = "__init__" /\ a' = [auto_init |-> auto]
        /\ log' = <<>> /\ msg' = ""
        /\ IF auto
           THEN frame' = "initialize" /\ pc' = "ready" /\ exc' = "none"
           ELSE frame' = "__init__" /\ pc' = "done" /\ exc' = "ok"
    /\ Keep

\* K2Pro.__init__(cfg)
K2Pro_init ==
    /\ Idle
    /\ \E c \in K2ProConfigs :
        /\ obj' = "K2Pro" /\ cfg' = c /\ limits' = None
    /\ op' = "__init__" /\ a' = None /\ log' = <<>> /\ msg' = ""
    /\ frame' = "__init__" /\ pc' = "done" /\ exc' = "ok"
    /\ Keep

\* control is back at the caller; a constructor that raised leaves no object
Return ==
    /\ pc = "done"
    /\ IF op = "__init__" /\ exc # "ok"
       THEN obj' = "none" /\ cfg' = None /\ limits' = None
       ELSE UNCHANGED <<obj, cfg, limits>>
    /\ op' = "none" /\ frame' = "none" /\ pc' = "idle"
    /\ a' = None /\ m' = None /\ log' = <<>> /\ exc' = "none" /\ msg' = ""
    /\ elapsed' = 0 /\ reads' = 0 /\ sleeps' = 0 /\ lastMoving' = "none"

-----------------------------------------------------------------------------
(* Status checks shared by both classes *)

\* where a function continues after self._ensure_ready()
AfterReady ==
    CASE frame = "initialize" -> "refresh"
      [] frame = "home" -> IF obj = "Printer" /\ a.confirm THEN "confirm" ELSE "g28"
      [] frame = "set_bed_temperature" -> "bed_send"
      [] frame = "set_chamber_temperature" -> "heater_probe"
      [] frame = "set_motion_limits" -> "limits_send"
      [] OTHER -> "homed"

\* where a function continues after self._ensure_homed("xyz")
AfterHomed ==
    CASE frame \in {"move_absolute_air", "move_line_air"} -> "validate"
      [] frame = "move_xy_air" -> "position"
      [] OTHER -> "send"

\* faulty variant: the state reported by the printer is not looked at
ensure_ready_any_state ==
    /\ pc = "ready"
    /\ \E r \in InfoResponses :
        /\ Logged([ev |-> "info", r |-> r])
        /\ IF ~r.ok THEN Raise("PrinterError", HttpError)
           ELSE Proceed(AfterReady)
    /\ Frozen /\ UNCHANGED limits

\* _ensure_ready
ensure_ready ==
    /\ pc = "ready"
    /\ \E r \in InfoResponses :
        /\ Logged([ev |-> "info", r |-> r])
        /\ IF ~r.ok THEN Raise("PrinterError", HttpError)
           ELSE IF r.state # "ready" THEN Raise("PrinterError", "Printer not ready")
           ELSE Proceed(AfterReady)
    /\ Frozen /\ UNCHANGED limits

\* _ensure_homed("xyz")
ensure_homed_xyz ==
    /\ pc = "homed"
    /\ \E r \in HomedResponses :
        /\ Logged([ev |-> "homed", r |-> r])
        /\ IF ~r.ok THEN Raise("PrinterError", HttpError)
           ELSE IF ensure_homed(xyz, r.homed_axes) # None
                THEN Raise("PrinterError", "Axis not homed")
           ELSE Proceed(AfterHomed)
    /\ Frozen /\ UNCHANGED limits

-----------------------------------------------------------------------------
(* wait_moves: poll the "moving" flag until idle or timeout *)

Waiting == frame = "wait_moves" /\ pc \in {"poll", "clock", "sleep"}

\* time.time() - t0 once at least d more ticks have passed: exactly d later,
\* or (a slow request, a long sleep) at the timeout or one tick past it
Later(d, timeout) ==
    { Min(elapsed + d, MaxElapsed) } \cup
    { t \in {timeout, timeout + 1} : t >= elapsed + d /\ t <= MaxElapsed }

\* st = self.query_status(); if not moving: return
wait_moves_poll ==
    /\ frame = "wait_moves" /\ pc = "poll"
    /\ \E r \in MovingResponses :
        /\ reads' = Min(reads + 1, MaxCount)
        /\ lastMoving' = IF r.ok THEN r.moving ELSE "error"
        /\ IF ~r.ok THEN End("PrinterError", HttpError)
           ELSE IF r.moving # "true" THEN Returns
           ELSE Goto(frame, "clock")
    /\ UNCHANGED <<m, elapsed, sleeps, log, limits>>
    /\ Frozen

\* faulty variant: the elapsed time is never compared with the timeout
wait_moves_clock_no_timeout ==
    /\ frame = "wait_moves" /\ pc = "clock"
    /\ Goto(frame, "sleep")
    /\ UNCHANGED <<m, elapsed, reads, sleeps, lastMoving, log, limits>>
    /\ UNCHANGED <<obj, cfg, op, a>>

\* if time.time() - t0 > timeout: raise
wait_moves_clock ==
    /\ frame = "wait_moves" /\ pc = "clock"
    /\ IF elapsed > m.timeout
       THEN End("PrinterError", "Timeout waiting for moves to finish")
       ELSE Goto(frame, "sleep")
    /\ UNCHANGED <<m, elapsed, reads, sleeps, lastMoving, log, limits>>
    /\ Frozen

\* time.sleep(poll_interval): at least poll_interval passes
wait_moves_sleep ==
    /\ frame = "wait_moves" /\ pc = "sleep"
    /\ sleeps' = Min(sleeps + 1, MaxCount)
    /\ elapsed' \in Later(m.poll_interval, m.timeout)
    /\ Goto(frame, "poll")
    /\ UNCHANGED <<m, reads, lastMoving, log, limits>>
    /\ Frozen

\* a request of the loop is slow: it ends at the timeout or one tick past it
Tick ==
    /\ Waiting
    /\ \E t \in {m.timeout, m.timeout + 1} :
        t > elapsed /\ t <= MaxElapsed /\ elapsed' = t
    /\ UNCHANGED <<obj, cfg, limits, op, frame, pc, a, m, log, exc, msg,
                   reads, sleeps, lastMoving>>

\* wait_moves(poll_interval, timeout), called by the user
wait_moves ==
    /\ obj # "none"
    /\ \E poll \in {0, DefaultPoll},
          timeout \in {0, 2, IF obj = "Printer" THEN PrinterWaitTimeoutS * TicksPerSec
                              ELSE K2ProWaitTimeoutS * TicksPerSec} :
        /\ Idle
        /\ op' = "wait_moves" /\ a' = [poll_interval |-> poll, timeout |-> timeout]
        /\ log' = <<>>
        /\ EnterWait(poll, timeout)
    /\ UNCHANGED <<obj, cfg, limits>>

-----------------------------------------------------------------------------
(* Printer: initialisation and the limits cache *)

\* Printer.initialize()
Printer_initialize ==
    /\ obj = "Printer"
    /\ Call("initialize", "initialize", "ready", None, None)

\* Printer.refresh_limits(), called by the user
Printer_refresh_limits ==
    /\ obj = "Printer"
    /\ Call("refresh_limits", "refresh_limits", "refresh", None, None)

\* body of refresh_limits; inside initialize, _validate_attachment_box follows
refresh_limits ==
    /\ pc = "refresh"
    /\ \E r \in LimitsResponses :
        /\ Logged([ev |-> "limits", r |-> r])
        /\ IF ~r.ok
           THEN Raise("PrinterError", HttpError) /\ UNCHANGED limits
           ELSE IF ~r.present
           THEN Raise("KeyError", "axis_minimum") /\ UNCHANGED limits
           ELSE /\ limits' = r.limits
                /\ IF frame = "initialize" /\ validate_attachment_box(cfg) # "ok"
                   THEN Raise("PrinterError", validate_attachment_box(cfg))
                   ELSE Returns /\ Keep
    /\ Frozen

-----------------------------------------------------------------------------
(* Printer: moves *)

\* a run of a point validator on the point p / den (den = 1: whole millimetres)
CheckEvent(p, res) == [ev |-> "check", p |-> p, den |-> 1, res |-> res]

\* Printer.move_absolute(x, y, z, speed_mm_s, wait)
Printer_move_absolute ==
    /\ obj = "Printer"
    /\ \E p \in Points, speed \in Speeds, wait \in BOOLEAN :
        /\ wait => p \in WaitedPoints
        /\ LET args == [p |-> p, speed_mm_s |-> speed, wait |-> wait]
           IN  Call("move_absolute", "move_absolute", "ready", args,
                    [p |-> p, den |-> 1, speed_mm_s |-> speed, wait |-> wait])

\* move_absolute after the status checks: speed check, validation, POST
move_absolute_send ==
    /\ frame = "move_absolute" /\ pc = "send"
    /\ IF m.speed_mm_s <= 0
       THEN Raise("PrinterError", "speed_mm_s must be > 0") /\ UNCHANGED log
       ELSE LET res == check_xyz_over(limits, cfg, m.p, m.den)
                checked == [CheckEvent(m.p, res) EXCEPT !.den = m.den]
                \* f"{x:.3f}" of x = m.p[i] / m.den, exact in thousandths
                script == [move_absolute_script(m.p, m.speed_mm_s) EXCEPT
                              ![2].X = { v \div m.den : v \in @ },
                              ![2].Y = { v \div m.den : v \in @ },
                              ![2].Z = { v \div m.den : v \in @ }]
            IN
            IF res # "ok"
            THEN Logged(checked) /\ Raise("PrinterError", res)
            ELSE \E ok \in BOOLEAN :
                /\ log' = log \o << checked,
                                    [ev |-> "post", ok |-> ok, script |-> script] >>
                /\ IF ~ok THEN Raise("PrinterError", PostError)
                   ELSE IF m.wait THEN EnterDefaultWait
                   ELSE Returns /\ Keep
    /\ Frozen /\ UNCHANGED limits

\* faulty variant: the end of the pass at contact height is not validated
safe_y_pass_points_without_last(x, y_start, y_end, z_safe, z_contact) ==
    << <<x, y_start, z_safe>>, <<x, y_end, z_safe>>, <<x, y_start, z_contact>> >>

\* the key points safe_y_pass validates, in the order it validates them
safe_y_pass_points(x, y_start, y_end, z_safe, z_contact) ==
    << <<x, y_start, z_safe>>, <<x, y_end, z_safe>>,
       <<x, y_start, z_contact>>, <<x, y_end, z_contact>> >>

\* the validator runs made over `pts` (it stops at the first that raises)
RECURSIVE CheckRuns(_, _, _)
CheckRuns(lim, c, pts) ==
    IF pts = <<>> THEN <<>>
    ELSE LET res == check_xyz_with_attachment(lim, c, Head(pts)) IN
         IF res # "ok" THEN << CheckEvent(Head(pts), res) >>
         ELSE << CheckEvent(Head(pts), res) >> \o CheckRuns(lim, c, Tail(pts))

\* Printer.safe_y_pass(x, y_start, y_end, z_safe, z_contact, speeds, wait)
Printer_safe_y_pass ==
    /\ obj = "Printer"
    /\ \E x \in {200, 390}, ys \in {0, 200}, ye \in {200, 390},
          zs \in {50, 300}, zc \in {5, 50},
          travel \in {0, HomeSpeed}, approach \in {0, HomeSpeed}, wait \in BOOLEAN :
        Call("safe_y_pass", "safe_y_pass", "ready",
             [x |-> x, y_start |-> ys, y_end |-> ye, z_safe |-> zs, z_contact |-> zc,
              travel_speed_mm_s |-> travel, approach_speed_mm_s |-> approach,
              wait |-> wait], None)

\* safe_y_pass after the status checks: speed check, four validations, POST
safe_y_pass_send ==
    /\ frame = "safe_y_pass" /\ pc = "send"
    /\ IF a.travel_speed_mm_s <= 0 \/ a.approach_speed_mm_s <= 0
       THEN Raise("PrinterError", "Speeds must be > 0") /\ UNCHANGED log
       ELSE LET runs == CheckRuns(limits, cfg,
                           safe_y_pass_points(a.x, a.y_start, a.y_end, a.z_safe, a.z_contact))
                last == runs[Len(runs)].res
            IN  IF last # "ok"
                THEN log' = log \o runs /\ Raise("PrinterError", last)
                ELSE \E ok \in BOOLEAN :
                    /\ log' = log \o runs \o
                          << [ev |-> "post", ok |-> ok,
                              script |-> safe_y_pass_script(cfg, a.x, a.y_start, a.y_end,
                                  a.z_safe, a.z_contact,
                                  a.travel_speed_mm_s, a.approach_speed_mm_s)] >>
                    /\ IF ~ok THEN Raise("PrinterError", PostError)
                       ELSE IF a.wait THEN Proceed("m400")
                       ELSE Returns /\ Keep
    /\ Frozen /\ UNCHANGED limits

-----------------------------------------------------------------------------
(* Homing *)

\* faulty variant: any non-blank answer is taken as the confirmation
confirmation_any_answer(ans) == strip(ans) # <<>>

\* ans.strip().upper() == "CONFIRM"
confirmation_received(ans) == upper(strip(ans)) = CONFIRM_WORD

\* Printer.home(axes, confirm)
Printer_home ==
    /\ obj = "Printer"
    /\ \E axes \in { Str(<<"X","Y","Z">>), Str(<<"z">>) }, confirm \in BOOLEAN :
        Call("home", "home", "ready", [axes |-> axes, confirm |-> confirm], None)

\* K2Pro.home(axes)
K2Pro_home ==
    /\ obj = "K2Pro"
    /\ \E axes \in { Str(<<"X","Y","Z">>), Str(<<"z">>) } :
        Call("home", "home", "ready", [axes |-> axes], None)

\* home: the console prompt (confirm=True)
home_confirm ==
    /\ frame = "home" /\ pc = "confirm"
    /\ \E ans \in Answers :
        /\ Logged([ev |-> "input", ans |-> ans])
        /\ IF ~confirmation_received(ans)
           THEN Raise("PrinterError", "Homing cancelled by user")
           ELSE Proceed("g28")
    /\ Frozen /\ UNCHANGED limits

\* faulty variant: homing forgets the cached limits
home_g28_dropping_cache ==
    /\ frame = "home" /\ pc = "g28"
    /\ SendGcode(<< G28(a.axes) >>,
                 IF obj = "Printer" THEN Proceed("m400") ELSE Returns /\ Keep)
    /\ Frozen /\ limits' = None

\* home: self.send_gcode(f"G28 {axes.upper()}")
home_g28 ==
    /\ frame = "home" /\ pc = "g28"
    /\ SendGcode(<< G28(a.axes) >>,
                 IF obj = "Printer" THEN Proceed("m400") ELSE Returns /\ Keep)
    /\ Frozen /\ UNCHANGED limits

\* faulty variant: the parking height ignores the attachment
home_park_args_plain ==
    [p |-> << limits[1][2], limits[2][2], 2 * HomeZClearance >>,
     den |-> 2, speed_mm_s |-> HomeSpeed, wait |-> TRUE]

\* the arguments of the move that ends Printer.home: the point is p / den,
\* (xmax / 2, ymax / 2, -(attach_min_z) + 10) counted in halves of a millimetre
home_park_args ==
    [p |-> << limits[1][2], limits[2][2],
              2 * (-(cfg.attach_min_z) + HomeZClearance) >>,
     den |-> 2, speed_mm_s |-> HomeSpeed, wait |-> TRUE]

\* wait_moves_m400() inside safe_y_pass and home; home then calls move_absolute
wait_moves_m400 ==
    /\ pc = "m400"
    /\ \E ok \in BOOLEAN :
        /\ Logged([ev |-> "post", ok |-> ok, script |-> << M400 >>])
        /\ IF ~ok THEN Raise("PrinterError", PostError)
           ELSE IF frame = "safe_y_pass" THEN Returns /\ Keep
           ELSE IF limits = None
                THEN Raise("TypeError", "'NoneType' object is not subscriptable")
           ELSE /\ Goto("move_absolute", "ready")
                /\ m' = home_park_args
                /\ WaitSame
    /\ Frozen /\ UNCHANGED limits

-----------------------------------------------------------------------------
(* K2Pro: moves *)

\* faulty variant: dz is compared without abs()
refuses_dz_signed(dz, max_abs_dz) == dz > max_abs_dz

\* abs(dz) > max_abs_dz : move_relative refuses the step
refuses_dz(dz, max_abs_dz) == Abs(dz) > max_abs_dz

\* K2Pro.move_relative(dx, dy, dz, feedrate_mm_min, wait, max_abs_dz)
K2Pro_move_relative ==
    /\ obj = "K2Pro"
    /\ \E dx \in {0, 10}, dy \in {0, -10}, dz \in {-10, -5, 0, 5, 10},
          wait \in BOOLEAN, max \in {MaxAbsDzDefault, 10} :
        /\ wait => (dx # 0 /\ dy = 0)
        /\ Call("move_relative", "move_relative", "ready",
                [dx |-> dx, dy |-> dy, dz |-> dz, feedrate_mm_min |-> 3000,
                 wait |-> wait, max_abs_dz |-> max], None)

\* move_relative after the status checks: dz guard, parts, POST
move_relative_send ==
    /\ frame = "move_relative" /\ pc = "send"
    /\ IF refuses_dz(a.dz, a.max_abs_dz)
       THEN Raise("PrinterError", "Refusing dz") /\ UNCHANGED log
       ELSE IF a.dx = 0 /\ a.dy = 0 /\ a.dz = 0
       THEN Returns /\ Keep /\ UNCHANGED log
       ELSE SendGcode(move_relative_script(a.dx, a.dy, a.dz, a.feedrate_mm_min),
                      IF a.wait THEN EnterDefaultWait ELSE Returns /\ Keep)
    /\ Frozen /\ UNCHANGED limits

\* validate_point_air(p): get_limits(), three range checks, the z_air_min floor
ValidateAir(p, then) ==
    \E r \in LimitsResponses :
        IF ~r.ok
        THEN Logged([ev |-> "limits", r |-> r]) /\ Raise("PrinterError", HttpError)
        ELSE IF ~r.present
        THEN Logged([ev |-> "limits", r |-> r]) /\ Raise("KeyError", "axis_minimum")
        ELSE LET res == validate_point_air(r.limits, cfg, p) IN
             /\ log' = log \o << [ev |-> "limits", r |-> r], CheckEvent(p, res) >>
             /\ IF res # "ok" THEN Raise("PrinterError", res) ELSE then

\* K2Pro.move_absolute_air(x, y, z, speed_mm_s, wait)
K2Pro_move_absolute_air ==
    /\ obj = "K2Pro"
    /\ \E p \in Points, speed \in Speeds, wait \in BOOLEAN :
        /\ wait => p \in WaitedPoints
        /\ Call("move_absolute_air", "move_absolute_air", "ready",
                [p |-> p, speed_mm_s |-> speed, wait |-> wait], None)

\* move_absolute_air: speed check and validate_point_air(x, y, z)
move_absolute_air_validate ==
    /\ frame = "move_absolute_air" /\ pc = "validate"
    /\ IF a.speed_mm_s <= 0
       THEN Raise("PrinterError", "speed_mm_s must be > 0") /\ UNCHANGED log
       ELSE ValidateAir(a.p, Proceed("send"))
    /\ Frozen /\ UNCHANGED limits

\* move_absolute_air: the POST
move_absolute_air_send ==
    /\ frame = "move_absolute_air" /\ pc = "send"
    /\ SendGcode(move_absolute_script(a.p, a.speed_mm_s),
                 IF a.wait THEN EnterDefaultWait ELSE Returns /\ Keep)
    /\ Frozen /\ UNCHANGED limits

LinePoints == { <<200, 200, 50>>, <<390, 200, 50>>, <<200, 0, 5>>, <<200, 200, 300>> }

\* K2Pro.move_line_air(start, end, speed_mm_s, wait)
K2Pro_move_line_air ==
    /\ obj = "K2Pro"
    /\ \E p1 \in LinePoints, p2 \in LinePoints, speed \in {0, HomeSpeed}, wait \in BOOLEAN :
        /\ wait => p1 \in WaitedPoints
        /\ Call("move_line_air", "move_line_air", "ready",
                [start |-> p1, end |-> p2, speed_mm_s |-> speed, wait |-> wait], None)

\* move_line_air: speed check and validate_point_air(start)
move_line_air_validate ==
    /\ frame = "move_line_air" /\ pc = "validate"
    /\ IF a.speed_mm_s <= 0
       THEN Raise("PrinterError", "speed_mm_s must be > 0") /\ UNCHANGED log
       ELSE ValidateAir(a.start, Proceed("validate2"))
    /\ Frozen /\ UNCHANGED limits

\* faulty variant: the end point is not validated
move_line_air_validate2_skipped ==
    /\ frame = "move_line_air" /\ pc = "validate2"
    /\ Proceed("send") /\ UNCHANGED log
    /\ Frozen /\ UNCHANGED limits

\* move_line_air: validate_point_air(end)
move_line_air_validate2 ==
    /\ frame = "move_line_air" /\ pc = "validate2"
    /\ ValidateAir(a.end, Proceed("send"))
    /\ Frozen /\ UNCHANGED limits

\* move_line_air: the POST
move_line_air_send ==
    /\ frame = "move_line_air" /\ pc = "send"
    /\ SendGcode(move_line_air_script(a.start, a.end, a.speed_mm_s),
                 IF a.wait THEN EnterDefaultWait ELSE Returns /\ Keep)
    /\ Frozen /\ UNCHANGED limits

\* K2Pro.move_xy_air(x, y, speed_mm_s, wait)
K2Pro_move_xy_air ==
    /\ obj = "K2Pro"
    /\ \E x \in XS, y \in YS, speed \in Speeds, wait \in BOOLEAN :
        /\ wait => \E p \in WaitedPoints : x = p[1] /\ y = p[2]
        /\ Call("move_xy_air", "move_xy_air", "ready",
                [x |-> x, y |-> y, speed_mm_s |-> speed, wait |-> wait], None)

\* move_xy_air: cx, cy, cz = self.get_position(); z = max(cz, z_air_min)
move_xy_air_position ==
    /\ frame = "move_xy_air" /\ pc = "position"
    /\ \E r \in PositionResponses :
        /\ Logged([ev |-> "position", r |-> r])
        /\ IF ~r.ok THEN Raise("PrinterError", HttpError)
           ELSE IF ~r.present THEN Raise("KeyError", "position")
           ELSE /\ Goto(frame, "validate")
                /\ m' = [z |-> Max(r.z, cfg.z_air_min)]
                /\ WaitSame
    /\ Frozen /\ UNCHANGED limits

\* move_xy_air: validate_point_air(x, y, z)
move_xy_air_validate ==
    /\ frame = "move_xy_air" /\ pc = "validate"
    /\ ValidateAir(<<a.x, a.y, m.z>>, Proceed("send"))
    /\ Frozen /\ UNCHANGED limits

\* move_xy_air: the POST
move_xy_air_send ==
    /\ frame = "move_xy_air" /\ pc = "send"
    /\ SendGcode(move_xy_air_script(a.x, a.y, m.z, a.speed_mm_s),
                 IF a.wait THEN EnterDefaultWait ELSE Returns /\ Keep)
    /\ Frozen /\ UNCHANGED limits

-----------------------------------------------------------------------------
(* Thermal objects: what a status query answers and how it is read *)

\* a field of a queried object: a number, something float() refuses, or None
Num(v) == <<"num", v>>
Bad == <<"bad", 0>>
Absent == <<"absent", 0>>

\* the fields of the object answered: a reading may be in or out of the
\* tolerance band of the targets used
FieldPairs ==
    { <<Bad, Absent>>, <<Num(25), Bad>> } \cup
    ({ Num(25), Num(59), Num(62) } \X { Absent, Num(60) })

\* GET /printer/objects/query for one thermal object
ObjectResponses ==
    { [ok |-> FALSE], [ok |-> TRUE, found |-> FALSE] } \cup
    { [ok |-> TRUE, found |-> TRUE, temperature |-> f[1], target |-> f[2]] :
        f \in FieldPairs }

\* GET /printer/objects/query, read only for the presence of the object
ExistResponses ==
    { [ok |-> FALSE], [ok |-> TRUE, found |-> FALSE], [ok |-> TRUE, found |-> TRUE] }

\* GET /printer/objects/list: the request fails or the answer lacks
\* result.objects (ok = FALSE), or result.objects is not a list, or it is a
\* list whose items are strings <<"str", s>> or other values <<"num", v>>:
\* [], ["extruder"], ["extruder", "temperature_fan Chamber"], ["extruder", 7]
ListResponses ==
    { [ok |-> FALSE], [ok |-> TRUE, is_list |-> FALSE, objects |-> <<>>] } \cup
    { [ok |-> TRUE, is_list |-> TRUE, objects |-> o] :
        o \in { <<>>,
                << <<"str", Str(<<"e","x","t","r","u","d","e","r">>)>> >>,
                << <<"str", Str(<<"e","x","t","r","u","d","e","r">>)>>,
                   <<"str", Str(<<"t","e","m","p","e","r","a","t","u","r","e">>)
                            \o << 95 >>
                            \o Str(<<"f","a","n"," ","C","h","a","m","b","e","r">>)>> >>,
                << <<"str", Str(<<"e","x","t","r","u","d","e","r">>)>>,
                   <<"num", 7>> >> } }

\* _as_float(v, name) returns (does not raise)
as_float(v) == v[1] = "num"

\* cur = _as_float(temperature); tgt_f = None if tgt is None else _as_float(tgt)
read_fields(r) ==
    IF ~as_float(r.temperature) THEN [kind |-> "raise"]
    ELSE IF r.target = Absent
    THEN [kind |-> "reading", cur |-> r.temperature[2], tgt |-> <<>>]
    ELSE IF ~as_float(r.target) THEN [kind |-> "raise"]
    ELSE [kind |-> "reading", cur |-> r.temperature[2], tgt |-> << r.target[2] >>]

\* get_bed_temperature on the answer r of the heater_bed query
get_bed_temperature(r) ==
    IF ~r.ok THEN [exc |-> "PrinterError", msg |-> "GET failed"]
    ELSE IF ~r.found
    THEN [exc |-> "PrinterError", msg |-> "Klipper object 'heater_bed' not found"]
    ELSE LET f == read_fields(r) IN
         IF f.kind = "raise"
         THEN [exc |-> "PrinterError", msg |-> "Cannot convert to float"]
         ELSE [exc |-> "ok", msg |-> "", cur |-> f.cur, tgt |-> f.tgt]

\* get_chamber_temperature: the candidates, in the order they are tried
Candidates ==
    << "temperature_sensor chamber", "heater_generic chamber",
       "temperature_fan chamber", "chamber" >>

\* one turn of the candidate loop: a reading, or the next candidate is tried
\* (after an exception kept in last_err, or because the object is missing)
candidate_reading(r) ==
    IF ~r.ok THEN [kind |-> "raise"]
    ELSE IF ~r.found THEN [kind |-> "missing"]
    ELSE read_fields(r)

\* the candidate loop from candidate i on; rs[i] answers the query of
\* Candidates[i]
RECURSIVE chamber_scan(_, _)
chamber_scan(rs, i) ==
    IF i > Len(Candidates) THEN [found |-> FALSE, queried |-> Len(Candidates)]
    ELSE LET o == candidate_reading(rs[i]) IN
         IF o.kind = "reading"
         THEN [found |-> TRUE, queried |-> i, cur |-> o.cur, tgt |-> o.tgt]
         ELSE chamber_scan(rs, i + 1)

QueryEvent(name, r) == [ev |-> "query", object |-> name, r |-> r]

\* faulty variant: a malformed target is read as no target
get_chamber_temperature_lenient(rs, d) ==
    LET lenient == [i \in 1..Len(rs) |->
                      IF rs[i].ok /\ rs[i].found /\ rs[i].target = Bad
                      THEN [rs[i] EXCEPT !.target = Absent] ELSE rs[i]]
        s == chamber_scan(lenient, 1)
        queries == [i \in 1..s.queried |-> QueryEvent(Candidates[i], rs[i])]
        listed == d.ok /\ d.is_list
        \* "chamber" in o.lower()
        chamber_in(o) ==
            LET w == Str(<<"c","h","a","m","b","e","r">>)
                t == lower(o)
            IN  \E k \in 0..(Len(t) - Len(w)) : SubSeq(t, k + 1, k + Len(w)) = w
    IN  IF s.found
        THEN [exc |-> "ok", msg |-> "", events |-> queries,
              cur |-> s.cur, tgt |-> s.tgt, hint |-> <<>>]
        ELSE IF listed /\ \E k \in DOMAIN d.objects : d.objects[k][1] # "str"
        THEN [exc |-> "AttributeError", msg |-> "object has no attribute 'lower'",
              events |-> queries \o << [ev |-> "list", r |-> d] >>,
              cur |-> 0, tgt |-> <<>>, hint |-> <<>>]
        ELSE [exc |-> "PrinterError",
              msg |-> "Chamber temperature object not found",
              events |-> queries \o << [ev |-> "list", r |-> d] >>,
              cur |-> 0, tgt |-> <<>>,
              hint |-> IF listed
                       THEN SelectSeq([k \in DOMAIN d.objects |-> d.objects[k][2]],
                                      chamber_in)
                       ELSE <<>>]

\* get_chamber_temperature when rs[i] answers the query of Candidates[i] and
\* d answers the objects list: the requests made and the outcome; the hint
\* is the list of the listed names that hold "chamber", computed outside
\* the try of the list request
get_chamber_temperature(rs, d) ==
    LET s == chamber_scan(rs, 1)
        queries == [i \in 1..s.queried |-> QueryEvent(Candidates[i], rs[i])]
        listed == d.ok /\ d.is_list
        \* "chamber" in o.lower()
        chamber_in(o) ==
            LET w == Str(<<"c","h","a","m","b","e","r">>)
                t == lower(o)
            IN  \E k \in 0..(Len(t) - Len(w)) : SubSeq(t, k + 1, k + Len(w)) = w
    IN  IF s.found
        THEN [exc |-> "ok", msg |-> "", events |-> queries,
              cur |-> s.cur, tgt |-> s.tgt, hint |-> <<>>]
        ELSE IF listed /\ \E k \in DOMAIN d.objects : d.objects[k][1] # "str"
        THEN [exc |-> "AttributeError", msg |-> "object has no attribute 'lower'",
              events |-> queries \o << [ev |-> "list", r |-> d] >>,
              cur |-> 0, tgt |-> <<>>, hint |-> <<>>]
        ELSE [exc |-> "PrinterError",
              msg |-> "Chamber temperature object not found",
              events |-> queries \o << [ev |-> "list", r |-> d] >>,
              cur |-> 0, tgt |-> <<>>,
              hint |-> IF listed
                       THEN SelectSeq([k \in DOMAIN d.objects |-> d.objects[k][2]],
                                      chamber_in)
                       ELSE <<>>]

\* every run of get_chamber_temperature over the answers of the printer
ChamberRuns ==
    { get_chamber_temperature(rs, d) :
        rs \in [1..Len(Candidates) -> ObjectResponses], d \in ListResponses }

\* what a run hands to its caller
ChamberReadings == { [exc |-> run.exc, cur |-> run.cur] : run \in ChamberRuns }

-----------------------------------------------------------------------------
(* Printer: bed temperature *)

\* Printer.get_bed_temperature()
Printer_get_bed_temperature ==
    /\ obj = "Printer"
    /\ Call("get_bed_temperature", "get_bed_temperature", "bed_query", None, None)

\* body of get_bed_temperature
get_bed_temperature_query ==
    /\ frame = "get_bed_temperature" /\ pc = "bed_query"
    /\ \E r \in ObjectResponses :
        LET out == get_bed_temperature(r) IN
        /\ Logged(QueryEvent("heater_bed", r))
        /\ IF out.exc # "ok" THEN Raise(out.exc, out.msg)
           ELSE /\ Returns /\ WaitSame
                /\ m' = [cur |-> out.cur, tgt |-> out.tgt]
    /\ Frozen /\ UNCHANGED limits

BedTemps == {-1, 0, 60, BedMaxC, BedMaxC + 1}

\* faulty variant: the upper end of the range is refused
temp_out_of_range_open(t, hi) == t < 0 \/ t >= hi

\* temp_c < 0 or temp_c > hi
temp_out_of_range(t, hi) == t < 0 \/ t > hi

\* Printer.set_bed_temperature(temp_c, wait)
Printer_set_bed_temperature ==
    /\ obj = "Printer"
    /\ \E t \in BedTemps, wait \in BOOLEAN :
        Call("set_bed_temperature", "set_bed_temperature", "ready",
             [temp_c |-> t, wait |-> wait], None)

\* set_bed_temperature after _ensure_ready: range check and M140 / M190
set_bed_temperature_send ==
    /\ frame = "set_bed_temperature" /\ pc = "bed_send"
    /\ IF temp_out_of_range(a.temp_c, BedMaxC)
       THEN Raise("PrinterError", "Bed temperature out of expected range")
            /\ UNCHANGED log
       ELSE SendGcode(<< IF a.wait THEN M190(a.temp_c) ELSE M140(a.temp_c) >>,
                      IF a.wait THEN Proceed("bed_m400") ELSE Returns /\ Keep)
    /\ Frozen /\ UNCHANGED limits

\* set_bed_temperature(wait=True): self.wait_moves_m400()
set_bed_temperature_m400 ==
    /\ frame = "set_bed_temperature" /\ pc = "bed_m400"
    /\ SendGcode(<< M400 >>, Returns /\ Keep)
    /\ Frozen /\ UNCHANGED limits

-----------------------------------------------------------------------------
(* Printer: chamber temperature *)

\* Printer.get_chamber_temperature()
Printer_get_chamber_temperature ==
    /\ obj = "Printer"
    /\ Call("get_chamber_temperature", "get_chamber_temperature", "chamber", None, None)

\* body of get_chamber_temperature, called by the user
get_chamber_temperature_run ==
    /\ frame = "get_chamber_temperature" /\ pc = "chamber"
    /\ \E run \in ChamberRuns :
        /\ log' = log \o run.events
        /\ IF run.exc # "ok" THEN Raise(run.exc, run.msg)
           ELSE /\ Returns /\ WaitSame
                /\ m' = [cur |-> run.cur, tgt |-> run.tgt]
    /\ Frozen /\ UNCHANGED limits

ChamberTemps == {-1, 0, 60, ChamberMaxC, ChamberMaxC + 1}

\* Printer.set_chamber_temperature(temp_c, wait)
Printer_set_chamber_temperature ==
    /\ obj = "Printer"
    /\ \E t \in ChamberTemps, wait \in BOOLEAN :
        Call("set_chamber_temperature", "set_chamber_temperature", "ready",
             [temp_c |-> t, wait |-> wait], None)

CannotSet == "Cannot set chamber temperature"

\* an exception inside one of the two try blocks of set_chamber_temperature is
\* caught (except Exception: pass): after the first block the second is
\* entered, after the second the final raise is reached
Swallowed(stage) ==
    IF stage = "heater"
    THEN Goto("set_chamber_temperature", "fan_probe")
    ELSE /\ frame' = "set_chamber_temperature" /\ pc' = "done"
         /\ exc' = "PrinterError" /\ msg' = CannotSet

\* t0 = time.time() on entry to _wait_chamber_reach(temp_c, tol=1.0,
\* timeout_s=self.cfg.timeout), poll_s at its default
EnterChamberWait(stage) ==
    /\ Goto("_wait_chamber_reach", "reach_poll")
    /\ m' = [stage |-> stage, target_c |-> a.temp_c, tol |-> ChamberTol,
             timeout |-> cfg.timeout * TicksPerSec,
             poll_interval |-> ChamberPollS * TicksPerSec, cur |-> <<>>]
    /\ elapsed' = 0 /\ reads' = 0 /\ sleeps' = 0 /\ lastMoving' = "none"

\* set_chamber_temperature after _ensure_ready: range check, then the probe
\* of heater_generic chamber
set_chamber_temperature_heater_probe ==
    /\ frame = "set_chamber_temperature" /\ pc = "heater_probe"
    /\ IF temp_out_of_range(a.temp_c, ChamberMaxC)
       THEN Raise("PrinterError", "Chamber temperature out of expected range")
            /\ UNCHANGED log
       ELSE \E r \in ExistResponses :
            /\ Logged(QueryEvent("heater_generic chamber", r))
            /\ Keep
            /\ IF r.ok /\ r.found THEN Goto(frame, "heater_send")
               ELSE Goto(frame, "fan_probe")
    /\ Frozen /\ UNCHANGED limits

\* SET_HEATER_TEMPERATURE, inside the first try block
set_chamber_temperature_heater_send ==
    /\ frame = "set_chamber_temperature" /\ pc = "heater_send"
    /\ \E ok \in BOOLEAN :
        /\ Logged([ev |-> "post", ok |-> ok,
                   script |-> << SET_HEATER_TEMPERATURE(a.temp_c) >>])
        /\ IF ~ok THEN Swallowed("heater") /\ Keep
           ELSE IF a.wait THEN EnterChamberWait("heater")
           ELSE Returns /\ Keep
    /\ Frozen /\ UNCHANGED limits

\* the probe of temperature_fan chamber, inside the second try block
set_chamber_temperature_fan_probe ==
    /\ frame = "set_chamber_temperature" /\ pc = "fan_probe"
    /\ \E r \in ExistResponses :
        /\ Logged(QueryEvent("temperature_fan chamber", r))
        /\ Keep
        /\ IF r.ok /\ r.found THEN Goto(frame, "fan_send")
           ELSE IF ~r.ok THEN Swallowed("fan")
           ELSE End("PrinterError", CannotSet)
    /\ Frozen /\ UNCHANGED limits

\* SET_TEMPERATURE_FAN_TARGET, inside the second try block
set_chamber_temperature_fan_send ==
    /\ frame = "set_chamber_temperature" /\ pc = "fan_send"
    /\ \E ok \in BOOLEAN :
        /\ Logged([ev |-> "post", ok |-> ok,
                   script |-> << SET_TEMPERATURE_FAN_TARGET(a.temp_c) >>])
        /\ IF ~ok THEN Swallowed("fan") /\ Keep
           ELSE IF a.wait THEN EnterChamberWait("fan")
           ELSE Returns /\ Keep
    /\ Frozen /\ UNCHANGED limits

-----------------------------------------------------------------------------
(* _wait_chamber_reach: poll the chamber until the target is reached *)

ChamberWaiting ==
    frame = "_wait_chamber_reach" /\ pc \in {"reach_poll", "reach_clock", "reach_sleep"}

WaitEvent(stage, res) == [ev |-> "wait", stage |-> stage, res |-> res]

\* abs(cur - target_c) <= tol
reached(cur, target_c, tol) == Abs(cur - target_c) <= tol

\* cur, _tgt = self.get_chamber_temperature(); if abs(cur - target_c) <= tol: return
wait_chamber_reach_poll ==
    /\ frame = "_wait_chamber_reach" /\ pc = "reach_poll"
    /\ \E run \in ChamberReadings :
        /\ reads' = Min(reads + 1, MaxCount)
        /\ IF run.exc # "ok"
           THEN /\ Logged(WaitEvent(m.stage, "reading failed"))
                /\ Swallowed(m.stage) /\ m' = m
           ELSE IF reached(run.cur, m.target_c, m.tol)
           THEN /\ Logged(WaitEvent(m.stage, "reached"))
                /\ frame' = "set_chamber_temperature" /\ pc' = "done"
                /\ exc' = "ok" /\ msg' = ""
                /\ m' = [m EXCEPT !.cur = << run.cur >>]
           ELSE /\ Goto(frame, "reach_clock")
                /\ m' = [m EXCEPT !.cur = << run.cur >>]
                /\ UNCHANGED log
    /\ UNCHANGED <<elapsed, sleeps, lastMoving, limits>>
    /\ Frozen

\* faulty variant: the elapsed time is never compared with timeout_s
wait_chamber_reach_clock_no_timeout ==
    /\ frame = "_wait_chamber_reach" /\ pc = "reach_clock"
    /\ Goto(frame, "reach_sleep") /\ UNCHANGED log
    /\ UNCHANGED <<m, elapsed, reads, sleeps, lastMoving, limits>>
    /\ UNCHANGED <<obj, cfg, op, a>>

\* if time.time() - t0 > timeout_s: raise
wait_chamber_reach_clock ==
    /\ frame = "_wait_chamber_reach" /\ pc = "reach_clock"
    /\ IF elapsed > m.timeout
       THEN Logged(WaitEvent(m.stage, "timeout")) /\ Swallowed(m.stage)
       ELSE Goto(frame, "reach_sleep") /\ UNCHANGED log
    /\ UNCHANGED <<m, elapsed, reads, sleeps, lastMoving, limits>>
    /\ Frozen

\* time.sleep(poll_s): at least poll_s passes
wait_chamber_reach_sleep ==
    /\ frame = "_wait_chamber_reach" /\ pc = "reach_sleep"
    /\ sleeps' = Min(sleeps + 1, MaxCount)
    /\ elapsed' \in Later(m.poll_interval, m.timeout)
    /\ Goto(frame, "reach_poll")
    /\ UNCHANGED <<m, reads, lastMoving, log, limits>>
    /\ Frozen

\* a request of the loop is slow: it ends at the timeout or one tick past it
ChamberTick ==
    /\ ChamberWaiting
    /\ \E t \in {m.timeout, m.timeout + 1} :
        t > elapsed /\ t <= MaxElapsed /\ elapsed' = t
    /\ UNCHANGED <<obj, cfg, limits, op, frame, pc, a, m, log, exc, msg,
                   reads, sleeps, lastMoving>>

-----------------------------------------------------------------------------
(* Printer: motion limits *)

\* Printer.set_motion_limits(velocity_mm_s, accel_mm_s2)
Printer_set_motion_limits ==
    /\ obj = "Printer"
    /\ \E v \in Speeds, acc \in {0, 3000} :
        Call("set_motion_limits", "set_motion_limits", "ready",
             [velocity_mm_s |-> v, accel_mm_s2 |-> acc], None)

\* set_motion_limits after _ensure_ready: argument check and the POST
set_motion_limits_send ==
    /\ frame = "set_motion_limits" /\ pc = "limits_send"
    /\ IF a.velocity_mm_s <= 0 \/ a.accel_mm_s2 <= 0
       THEN Raise("PrinterError", "velocity_mm_s and accel_mm_s2 must be > 0")
            /\ UNCHANGED log
       ELSE SendGcode(<< SET_VELOCITY_LIMIT(a.velocity_mm_s, a.accel_mm_s2) >>,
                      Returns /\ Keep)
    /\ Frozen /\ UNCHANGED limits

-----------------------------------------------------------------------------
(* The client: one call at a time, each run to its end *)

Next ==
    \/ Printer_init
    \/ K2Pro_init
    \/ Return
    \/ ensure_ready
    \/ ensure_homed_xyz
    \/ wait_moves
    \/ wait_moves_poll
    \/ wait_moves_clock
    \/ wait_moves_sleep
    \/ Tick
    \/ Printer_initialize
    \/ Printer_refresh_limits
    \/ refresh_limits
    \/ Printer_move_absolute
    \/ move_absolute_send
    \/ Printer_safe_y_pass
    \/ safe_y_pass_send
    \/ Printer_home
    \/ K2Pro_home
    \/ home_confirm
    \/ home_g28
    \/ wait_moves_m400
    \/ K2Pro_move_relative
    \/ move_relative_send
    \/ K2Pro_move_absolute_air
    \/ move_absolute_air_validate
    \/ move_absolute_air_send
    \/ K2Pro_move_line_air
    \/ move_line_air_validate
    \/ move_line_air_validate2
    \/ move_line_air_send
    \/ K2Pro_move_xy_air
    \/ move_xy_air_position
    \/ move_xy_air_validate
    \/ move_xy_air_send
    \/ Printer_get_bed_temperature
    \/ get_bed_temperature_query
    \/ Printer_set_bed_temperature
    \/ set_bed_temperature_send
    \/ set_bed_temperature_m400
    \/ Printer_get_chamber_temperature
    \/ get_chamber_temperature_run
    \/ Printer_set_chamber_temperature
    \/ set_chamber_temperature_heater_probe
    \/ set_chamber_temperature_heater_send
    \/ set_chamber_temperature_fan_probe
    \/ set_chamber_temperature_fan_send
    \/ wait_chamber_reach_poll
    \/ wait_chamber_reach_clock
    \/ wait_chamber_reach_sleep
    \/ ChamberTick
    \/ Printer_set_motion_limits
    \/ set_motion_limits_send

Spec == Init /\ [][Next]_vars

-----------------------------------------------------------------------------
(* Reading the record of a call *)

Done == pc = "done"

Posts == { i \in DOMAIN log : log[i].ev = "post" }

NoGcodeSent == Posts = {}

HasLine(script, words) == \E k \in DOMAIN script : script[k].g \in words

\* posts whose script holds a G1 line / a G1 or G28 line
G1Posts == { i \in Posts : HasLine(log[i].script, {"G1"}) }
MotionPosts == { i \in Posts : HasLine(log[i].script, {"G1", "G28"}) }

OkChecksBefore(i) ==
    { j \in 1..(i - 1) : log[j].ev = "check" /\ log[j].res = "ok" }

\* the six extremes of the attachment box at p, each with its axis
Extremes(c, p) ==
    << <<1, p[1] + c.attach_min_x>>, <<1, p[1] + c.attach_max_x>>,
       <<2, p[2] + c.attach_min_y>>, <<2, p[2] + c.attach_max_y>>,
       <<3, p[3] + c.attach_min_z>>, <<3, p[3] + c.attach_max_z>> >>

\* the limits and the attachment box with every length multiplied by k
ScaleLimits(lim, k) == [i \in 1..3 |-> << k * lim[i][1], k * lim[i][2] >>]

ScaleBox(c, k) ==
    [c EXCEPT !.attach_min_x = k * @, !.attach_max_x = k * @,
              !.attach_min_y = k * @, !.attach_max_y = k * @,
              !.attach_min_z = k * @, !.attach_max_z = k * @]

Outside(lim, e) == e[2] < lim[e[1]][1] \/ e[2] > lim[e[1]][2]

InBox(lim, c, p) == \A k \in 1..6 : ~Outside(lim, Extremes(c, p)[k])

ValidEnvelope(c) ==
    /\ c.attach_min_x <= c.attach_max_x
    /\ c.attach_min_y <= c.attach_max_y
    /\ c.attach_min_z <= c.attach_max_z

\* the points the call in progress has to validate (Printer)
KeyPoints ==
    IF op = "move_absolute" THEN { a.p }
    ELSE IF op = "safe_y_pass"
    THEN { <<a.x, a.y_start, a.z_safe>>, <<a.x, a.y_end, a.z_safe>>,
           <<a.x, a.y_start, a.z_contact>>, <<a.x, a.y_end, a.z_contact>> }
    ELSE {}

MoveOps == {"move_absolute", "safe_y_pass", "move_relative",
            "move_absolute_air", "move_line_air", "move_xy_air"}

-----------------------------------------------------------------------------
(* C1 *)

\* C1: move_absolute and safe_y_pass POST a script only when every point the
\* call checks has all six attachment extremes inside the cached limits; with
\* an extreme outside (or no cached limits) the call ends in PrinterError
\* and has sent no gcode.
C1_PostOnlyInsideEnvelope ==
    (obj = "Printer" /\ op \in {"move_absolute", "safe_y_pass"}) =>
        /\ ~NoGcodeSent =>
              /\ limits # None
              /\ \A p \in KeyPoints : InBox(limits, cfg, p)
              /\ \A i \in Posts : \A j \in 1..(i - 1) :
                    log[j].ev = "check" => InBox(limits, cfg, log[j].p)
        /\ (Done /\ (limits = None \/ \E p \in KeyPoints : ~InBox(limits, cfg, p))) =>
              /\ exc = "PrinterError"
              /\ NoGcodeSent

\* a point inside the axis limits whose attachment box sticks out was refused
C1_Witness ==
    /\ obj = "Printer" /\ op = "move_absolute" /\ Done
    /\ limits # None
    /\ InBox(limits, PrinterConfig(0, 0, 0, 0, 0, 0), a.p)
    /\ ~InBox(limits, cfg, a.p)
    /\ \E i \in DOMAIN log : log[i].ev = "homed"
    /\ exc = "PrinterError" /\ NoGcodeSent

-----------------------------------------------------------------------------
(* C2 *)

\* the absolute positions a script commands: after each G1 line of a G90
\* script, the target with every coordinate named so far (in thousandths)
RECURSIVE Commanded(_, _, _)
Commanded(script, k, cur) ==
    IF k > Len(script) THEN {}
    ELSE IF script[k].g # "G1" THEN Commanded(script, k + 1, cur)
    ELSE LET l == script[k]
             nxt == << IF l.X # {} THEN l.X ELSE cur[1],
                       IF l.Y # {} THEN l.Y ELSE cur[2],
                       IF l.Z # {} THEN l.Z ELSE cur[3] >>
         IN  (IF \A n \in 1..3 : nxt[n] # {}
              THEN { << CHOOSE v \in nxt[1] : TRUE, CHOOSE v \in nxt[2] : TRUE,
                        CHOOSE v \in nxt[3] : TRUE >> }
              ELSE {})
             \cup Commanded(script, k + 1, nxt)

IsAbsolute(script) == script[1].g = "G90"

Thousandths(p) == << p[1] * 1000, p[2] * 1000, p[3] * 1000 >>

\* C2 as stated: every script with a G1 or G28 line is preceded, in the same
\* call, by a successful run of the point validator.
C2_EveryMotionValidated ==
    \A i \in MotionPosts : OkChecksBefore(i) # {}

\* C2 as amended: every absolute position commanded by a G1 script of
\* move_absolute, safe_y_pass, move_absolute_air, move_line_air and
\* move_xy_air (and of the move that ends Printer.home) was accepted by the
\* validator earlier in the same call; the G28 of home and the relative G1
\* of move_relative are sent with no validator run.
C2_AbsoluteTargetsValidated ==
    \A i \in Posts :
        /\ IsAbsolute(log[i].script) =>
              \A pos \in Commanded(log[i].script, 1, <<{}, {}, {}>>) :
                  \E j \in OkChecksBefore(i) :
                      \A n \in 1..3 : log[j].den * pos[n] = 1000 * log[j].p[n]
        /\ (IsAbsolute(log[i].script) /\ HasLine(log[i].script, {"G1"})) =>
              OkChecksBefore(i) # {}
        /\ (~IsAbsolute(log[i].script) /\ HasLine(log[i].script, {"G1", "G28"})) =>
              /\ frame \in {"home", "move_relative", "wait_moves", "move_absolute"}
              /\ op \in {"home", "move_relative"}

\* a Y pass between two different rows and heights was sent after four checks
C2_Witness ==
    /\ op = "safe_y_pass" /\ Done /\ exc = "ok"
    /\ a.y_start # a.y_end /\ a.z_safe # a.z_contact
    /\ \E i \in G1Posts : Cardinality(OkChecksBefore(i)) = 4

-----------------------------------------------------------------------------
(* C3 *)

\* x, y and z are each in h, as a small or a capital letter
HomedAll(h) ==
    \A c \in {120, 121, 122} : \E n \in DOMAIN h : h[n] = c \/ h[n] = c - 32

ReadyAt(j) == log[j].ev = "info" /\ log[j].r.ok /\ log[j].r.state = "ready"
HomedAt(j) == log[j].ev = "homed" /\ log[j].r.ok /\ HomedAll(log[j].r.homed_axes)

\* C3: a move operation sends its G1 script only after, in the same call and
\* with nothing sent in between, the info read reported "ready" and the
\* status read reported x, y and z homed (in either case); when a read
\* reports another state or a missing axis the call ends in PrinterError
\* and sends no gcode.
C3_ReadyAndHomedGateMoves ==
    /\ \A i \in G1Posts :
          \E j \in 1..(i - 1), k \in 1..(i - 1) :
              /\ j < k /\ ReadyAt(j) /\ HomedAt(k)
              /\ \A n \in j..(i - 1) : log[n].ev # "post"
    /\ (op \in MoveOps /\ Done) =>
          \A j \in DOMAIN log :
              ((log[j].ev = "info" /\ log[j].r.ok /\ ~ReadyAt(j))
                  \/ (log[j].ev = "homed" /\ log[j].r.ok /\ ~HomedAt(j)))
              => (exc = "PrinterError" /\ NoGcodeSent)

\* a move was sent after homed_axes was reported in upper case
C3_Witness ==
    /\ op \in MoveOps /\ Done
    /\ G1Posts # {}
    /\ \E k \in DOMAIN log :
          log[k].ev = "homed" /\ log[k].r.ok /\ log[k].r.homed_axes = Str(<<"X", "Y", "Z">>)

-----------------------------------------------------------------------------
(* C4 *)

\* C4 as stated: no G1 script is sent by a Printer whose attachment envelope
\* has attach_min > attach_max on some axis.
C4_NoMoveWithInvalidEnvelope ==
    (obj = "Printer" /\ G1Posts # {}) => ValidEnvelope(cfg)

-----------------------------------------------------------------------------
(* C5 *)

\* CONFIRM in small letters with a dotless i, between a tab and a blank and
\* a blank and a no-break space
PaddedConfirm == <<9, 32, 67, 111, 110, 102, 305, 114, 109, 32, 160>>

\* the answers that acknowledge: strip() and upper() of them give CONFIRM
Acknowledgments == { Str(<<"C","O","N","F","I","R","M">>), PaddedConfirm }

G28Posts == { i \in Posts : HasLine(log[i].script, {"G28"}) }

AckBefore(i) ==
    \E j \in 1..(i - 1) : log[j].ev = "input" /\ log[j].ans \in Acknowledgments

\* C5 as stated: home sends G28 only after the operator's acknowledgment was
\* received in that call.
C5_HomeAlwaysConfirmed ==
    \A i \in G28Posts : AckBefore(i)

\* C5 as amended: Printer.home called with confirm=True (the default) sends
\* G28 only after the operator gave an answer that is CONFIRM once its
\* surrounding whitespace is removed and it is put in upper case (str.strip,
\* str.upper), and ends in PrinterError with no gcode sent on any other
\* answer; Printer.home(confirm=False) and K2Pro.home ask nothing.
C5_ConfirmGatesPrinterHome ==
    /\ (obj = "Printer" /\ op = "home" /\ a.confirm) =>
          /\ \A i \in G28Posts : AckBefore(i)
          /\ \A j \in DOMAIN log :
                (log[j].ev = "input" /\ log[j].ans \notin Acknowledgments)
                => (Done /\ exc = "PrinterError" /\ NoGcodeSent)
    /\ (op = "home" /\ ~(obj = "Printer" /\ a.confirm)) =>
          \A j \in DOMAIN log : log[j].ev # "input"

\* G28 went out after the operator typed CONFIRM in small letters, with a
\* dotless i and whitespace around it
C5_Witness ==
    /\ obj = "Printer" /\ op = "home" /\ a.confirm
    /\ G28Posts # {}
    /\ \E j \in DOMAIN log : log[j].ev = "input" /\ log[j].ans = PaddedConfirm

-----------------------------------------------------------------------------
(* The point validator on its own: _check_xyz_with_attachment applied to a   *)
(* Printer whose envelope, cached limits and candidate point are drawn       *)
(* from grids around the limits.                                             *)

AxisOffsets == { <<0, 0>>, <<-5, 30>>, <<10, 30>>, <<-20, -20>>, <<5, -5>> }

ValidatorConfigs ==
    { PrinterConfig(ox[1], ox[2], oy[1], oy[2], oz[1], oz[2]) :
        ox \in AxisOffsets, oy \in AxisOffsets, oz \in AxisOffsets }

LimitsC == << <<0, 400>>, <<0, 400>>, <<0, 400>> >>

ValidatorCoords == {-10, 0, 20, 31, 200, 369, 390}

ValidatorInit ==
    /\ obj = "Printer" /\ cfg \in ValidatorConfigs /\ limits \in {LimitsC}
    /\ op = "check_xyz_with_attachment" /\ frame = "check_xyz_with_attachment"
    /\ pc = "call"
    /\ a \in { [p |-> q] : q \in ValidatorCoords \X ValidatorCoords \X ValidatorCoords }
    /\ m = None /\ log = <<>> /\ exc = "none" /\ msg = ""
    /\ elapsed = 0 /\ reads = 0 /\ sleeps = 0 /\ lastMoving = "none"

\* self._check_xyz_with_attachment(x, y, z)
check_point ==
    /\ frame = "check_xyz_with_attachment" /\ pc = "call"
    /\ LET res == check_xyz_with_attachment(limits, cfg, a.p) IN
        /\ Logged(CheckEvent(a.p, res))
        /\ IF res # "ok" THEN Raise("PrinterError", res) ELSE Returns /\ Keep
    /\ Frozen /\ UNCHANGED limits

ValidatorNext == check_point

ValidatorSpec == ValidatorInit /\ [][ValidatorNext]_vars

-----------------------------------------------------------------------------
(* C6 *)

CheckNames == << "X+attach_min_x", "X+attach_max_x", "Y+attach_min_y",
                 "Y+attach_max_y", "Z+attach_min_z", "Z+attach_max_z" >>

Violations(lim, c, p) == { k \in 1..6 : Outside(lim, Extremes(c, p)[k]) }

FirstOf(S) == CHOOSE k \in S : \A n \in S : k <= n

Checks == { j \in DOMAIN log : log[j].ev = "check" }

\* C6: with a point whose attachment box leaves the limits on some axis the
\* validator raises PrinterError, and the error names the first violated
\* check of the order X+min, X+max, Y+min, Y+max, Z+min, Z+max and nothing
\* else; with no violated check it does not raise.
C6_FirstViolationNamed ==
    (obj = "Printer" /\ limits # None) =>
        \A j \in Checks :
            LET v == Violations(limits, cfg, log[j].p) IN
            /\ (v = {}) <=> (log[j].res = "ok")
            /\ v # {} =>
                  /\ log[j].res = CheckNames[FirstOf(v)]
                  /\ (Done /\ j = Len(log)) =>
                        (exc = "PrinterError" /\ msg = CheckNames[FirstOf(v)])

\* limits X[0,400], attach_min_x=-5, attach_max_x=30, x=390: refused on
\* X+attach_max_x although Y and Z are violated as well
C6_Witness ==
    /\ obj = "Printer" /\ limits # None /\ Done
    /\ limits[1] = <<0, 400>> /\ cfg.attach_min_x = -5 /\ cfg.attach_max_x = 30
    /\ \E j \in Checks :
          /\ log[j].p[1] = 390
          /\ Cardinality(Violations(limits, cfg, log[j].p)) >= 3
          /\ log[j].res = "X+attach_max_x"
    /\ exc = "PrinterError" /\ msg = "X+attach_max_x"

-----------------------------------------------------------------------------
(* C7 *)

\* the larger magnitude of the two offsets of axis n
Margin(c, n) ==
    IF n = 1 THEN Max(Abs(c.attach_min_x), Abs(c.attach_max_x))
    ELSE IF n = 2 THEN Max(Abs(c.attach_min_y), Abs(c.attach_max_y))
    ELSE Max(Abs(c.attach_min_z), Abs(c.attach_max_z))

StrictlyInsideShrunk(lim, c, p) ==
    \A n \in 1..3 :
        lim[n][1] + Margin(c, n) < p[n] /\ p[n] < lim[n][2] - Margin(c, n)

\* C7: with a valid envelope (min <= max on each axis) and a point strictly
\* inside the limits shrunk on each side by the larger offset magnitude of
\* the axis, the validator accepts.
C7_InsideShrunkAccepted ==
    (obj = "Printer" /\ limits # None /\ ValidEnvelope(cfg)) =>
        \A j \in Checks :
            StrictlyInsideShrunk(limits, cfg, log[j].p) =>
                /\ log[j].res = "ok"
                /\ (Done /\ j = Len(log)) => exc = "ok"

\* a point one millimetre inside the shrunk box of an envelope lying wholly
\* on the positive X side and the negative Y side was accepted
C7_Witness ==
    /\ obj = "Printer" /\ limits # None /\ Done /\ exc = "ok"
    /\ cfg.attach_min_x = 10 /\ cfg.attach_max_x = 30
    /\ cfg.attach_min_y = -20 /\ cfg.attach_max_y = -20
    /\ cfg.attach_min_z = -5 /\ cfg.attach_max_z = 30
    /\ \E j \in Checks :
          /\ log[j].p = <<369, 31, 31>>
          /\ StrictlyInsideShrunk(limits, cfg, log[j].p)
          /\ log[j].res = "ok"

-----------------------------------------------------------------------------
(* C8 *)

LimitsReadsBefore(i) ==
    { j \in 1..(i - 1) : log[j].ev = "limits" /\ log[j].r.ok /\ log[j].r.present }

\* every word of the G1 line lies inside the limits (both in thousandths)
LineWithin(l, lim) ==
    /\ \A v \in l.X : lim[1][1] * 1000 <= v /\ v <= lim[1][2] * 1000
    /\ \A v \in l.Y : lim[2][1] * 1000 <= v /\ v <= lim[2][2] * 1000
    /\ \A v \in l.Z : lim[3][1] * 1000 <= v /\ v <= lim[3][2] * 1000

AirOps == {"move_absolute_air", "move_line_air", "move_xy_air"}

\* C8: validate_point_air refuses every point with z below z_air_min, so
\* every G1 line sent by move_absolute_air, move_line_air and move_xy_air
\* has its Z target at or above z_air_min and all its targets inside axis
\* limits read earlier in the same call.
C8_AirMovesAboveFloor ==
    (obj = "K2Pro" /\ op \in AirOps) =>
        /\ \A j \in Checks : log[j].p[3] < cfg.z_air_min => log[j].res # "ok"
        /\ \A i \in Posts : \A k \in DOMAIN log[i].script :
              LET l == log[i].script[k] IN
              l.g = "G1" =>
                  /\ \A v \in l.Z : v >= cfg.z_air_min * 1000
                  /\ \E j \in LimitsReadsBefore(i) : LineWithin(l, log[j].r.limits)
        /\ \A i \in Posts :
              \A pos \in Commanded(log[i].script, 1, <<{}, {}, {}>>) :
                  \E j \in LimitsReadsBefore(i) :
                      \A n \in 1..3 :
                          /\ log[j].r.limits[n][1] * 1000 <= pos[n]
                          /\ pos[n] <= log[j].r.limits[n][2] * 1000

\* move_xy_air found the head below the floor and sent it up to z_air_min
C8_Witness ==
    /\ obj = "K2Pro" /\ op = "move_xy_air"
    /\ \E j \in DOMAIN log :
          log[j].ev = "position" /\ log[j].r.ok /\ log[j].r.present
          /\ log[j].r.z < cfg.z_air_min
    /\ \E i \in G1Posts :
          log[i].script[2].Z = {cfg.z_air_min * 1000}

-----------------------------------------------------------------------------
(* C9 *)

GatesPassed == \E j \in DOMAIN log : HomedAt(j)

\* the script move_relative is to send for the call's arguments
RelativeScript ==
    << [g |-> "G91"],
       [g |-> "G1",
        X |-> IF a.dx # 0 THEN {a.dx * 1000} ELSE {},
        Y |-> IF a.dy # 0 THEN {a.dy * 1000} ELSE {},
        Z |-> IF a.dz # 0 THEN {a.dz * 1000} ELSE {},
        F |-> a.feedrate_mm_min],
       [g |-> "G90"] >>

\* C9: move_relative with |dz| > max_abs_dz ends in PrinterError and sends
\* nothing; past the ready and homed checks, with |dz| <= max_abs_dz and a
\* non-zero delta it sends exactly one script G91 / G1 <non-zero deltas> /
\* G90, and with all deltas zero it sends nothing and returns normally.
C9_RelativeMoveGuard ==
    (obj = "K2Pro" /\ op = "move_relative") =>
        /\ (Done /\ Abs(a.dz) > a.max_abs_dz) =>
              (exc = "PrinterError" /\ NoGcodeSent)
        /\ Abs(a.dz) > a.max_abs_dz => NoGcodeSent
        /\ ((Done \/ frame = "wait_moves") /\ GatesPassed
              /\ Abs(a.dz) <= a.max_abs_dz
              /\ (a.dx # 0 \/ a.dy # 0 \/ a.dz # 0)) =>
              /\ Cardinality(Posts) = 1
              /\ \A i \in Posts : log[i].script = RelativeScript
        /\ (Done /\ GatesPassed /\ a.dx = 0 /\ a.dy = 0 /\ a.dz = 0) =>
              (NoGcodeSent /\ exc = "ok")

\* a downward step of exactly max_abs_dz was sent with only its Z word
C9_Witness ==
    /\ obj = "K2Pro" /\ op = "move_relative" /\ Done /\ exc = "ok"
    /\ a.dx = 0 /\ a.dy = 0 /\ a.dz = -(a.max_abs_dz)
    /\ Cardinality(Posts) = 1
    /\ \A i \in Posts :
          log[i].script[2] = [g |-> "G1", X |-> {}, Y |-> {},
                              Z |-> {a.dz * 1000}, F |-> a.feedrate_mm_min]

-----------------------------------------------------------------------------
(* C10 *)

\* the program keeps executing the loop, and the clock keeps advancing
WaitStep == wait_moves_poll \/ wait_moves_clock \/ wait_moves_sleep

\* the client constructs an object and calls wait_moves, nothing else
WaitNext ==
    \/ Printer_init
    \/ K2Pro_init
    \/ Return
    \/ ensure_ready
    \/ refresh_limits
    \/ wait_moves
    \/ wait_moves_poll
    \/ wait_moves_clock
    \/ wait_moves_sleep
    \/ Tick

LiveSpec == Init /\ [][WaitNext]_vars /\ WF_vars(WaitStep) /\ WF_vars(Tick)

InWaitMoves == frame = "wait_moves"

WaitMovesSafe ==
    InWaitMoves =>
        /\ (reads = 1 /\ lastMoving \in {"false", "absent"}) =>
              (Done /\ exc = "ok" /\ sleeps = 0)
        /\ (Done /\ exc = "ok") => lastMoving \in {"false", "absent"}
        /\ (Done /\ lastMoving = "true") =>
              (exc = "PrinterError" /\ elapsed > m.timeout)
        /\ pc = "sleep" => lastMoving = "true"
        /\ (reads < MaxCount /\ pc \in {"clock", "sleep", "done"}) => sleeps = reads - 1
        /\ (reads < MaxCount /\ pc = "poll") => sleeps = reads

\* C10: wait_moves returns at once, after one status read and no sleep, when
\* that read reports moving false or absent; it returns normally only when
\* its last read reported not moving; when moving stays true it raises
\* PrinterError only with the elapsed time above the timeout; and while the
\* clock advances every wait loop ends.
C10_WaitMovesEnds ==
    /\ []WaitMovesSafe
    /\ (Waiting ~> Done)

\* the loop slept, read "moving" again and gave up after the timeout
C10_Witness ==
    /\ InWaitMoves /\ Done /\ exc = "PrinterError"
    /\ msg = "Timeout waiting for moves to finish"
    /\ lastMoving = "true" /\ reads >= 2 /\ sleeps >= 1
    /\ elapsed > m.timeout

-----------------------------------------------------------------------------
(* C11 *)

Queries == { i \in DOMAIN log : log[i].ev = "query" }
Listings == { i \in DOMAIN log : log[i].ev = "list" }

\* an answer holding the object with a numeric temperature and a target that
\* is absent or numeric
WellFormed(r) ==
    /\ r.ok /\ r.found
    /\ r.temperature[1] = "num"
    /\ r.target[1] \in {"num", "absent"}

\* C11: get_chamber_temperature queries the candidates in the order
\* temperature_sensor chamber, heater_generic chamber, temperature_fan
\* chamber, chamber; a candidate whose query fails, that is missing or whose
\* fields are malformed is followed by the query of the next one; the first
\* well-formed answer is the last query made and its temperature and target
\* are what the call returns.
C11_FirstWellFormedCandidate ==
    (op = "get_chamber_temperature" /\ Done) =>
        /\ \A i \in Queries :
              /\ i <= 4
              /\ log[i].object =
                    << "temperature_sensor chamber", "heater_generic chamber",
                       "temperature_fan chamber", "chamber" >>[i]
              /\ (~WellFormed(log[i].r) /\ i < 4) => (i + 1) \in Queries
              /\ WellFormed(log[i].r) =>
                    /\ i = Len(log)
                    /\ exc = "ok"
                    /\ m.cur = log[i].r.temperature[2]
                    /\ m.tgt = IF log[i].r.target[1] = "absent" THEN <<>>
                               ELSE << log[i].r.target[2] >>
        /\ 1 \in Queries
        /\ exc = "ok" => WellFormed(log[Len(log)].r)

\* the third candidate was returned after a failed query and a malformed target
C11_Witness ==
    /\ op = "get_chamber_temperature" /\ Done /\ exc = "ok"
    /\ Len(log) = 3
    /\ ~log[1].r.ok
    /\ log[2].r.ok /\ log[2].r.found /\ log[2].r.target[1] = "bad"
    /\ log[3].object = "temperature_fan chamber"
    /\ m = [cur |-> 59, tgt |-> << 60 >>]

-----------------------------------------------------------------------------
(* C12 *)

\* C12 as stated: when no candidate gives a well-formed reading,
\* get_chamber_temperature asks for the objects list exactly once, after the
\* four queries, and ends in PrinterError "object not found" whatever that
\* request brings; it asks for the list in no other case and sends no gcode.
C12_DiscoveryThenNotFound ==
    (op = "get_chamber_temperature" /\ Done) =>
        /\ NoGcodeSent
        /\ (\A i \in Queries : ~WellFormed(log[i].r)) =>
              /\ Cardinality(Queries) = 4
              /\ Listings = { 5 } /\ Len(log) = 5
              /\ exc = "PrinterError"
              /\ msg = "Chamber temperature object not found"
        /\ (\E i \in Queries : WellFormed(log[i].r)) => Listings = {}

-----------------------------------------------------------------------------
(* C13 *)

SetLines == {"SET_HEATER_TEMPERATURE", "SET_TEMPERATURE_FAN_TARGET"}

\* set commands the printer accepted
SetPosts == { i \in Posts : log[i].ok /\ HasLine(log[i].script, SetLines) }

HeaterExists ==
    \E i \in Queries :
        /\ log[i].object = "heater_generic chamber"
        /\ log[i].r.ok /\ log[i].r.found

\* C13 as stated: a call of set_chamber_temperature has at most one set
\* command accepted by the printer, and none for the temperature fan when
\* heater_generic chamber exists.
C13_AtMostOneSetCommand ==
    op = "set_chamber_temperature" =>
        /\ Cardinality(SetPosts) <= 1
        /\ HeaterExists =>
              \A i \in SetPosts : ~HasLine(log[i].script, {"SET_TEMPERATURE_FAN_TARGET"})

-----------------------------------------------------------------------------
(* C14 *)

PostScripts == [k \in 1..Cardinality(Posts) |->
                  log[CHOOSE i \in Posts : Cardinality({ j \in Posts : j <= i }) = k].script]

\* C14: set_bed_temperature with a temperature outside 0..150 ends in
\* PrinterError with no gcode sent; with a temperature inside and the printer
\* ready it sends M140 S<temp> and nothing else (wait=False), or M190 S<temp>
\* and then M400 (wait=True).  set_chamber_temperature with a temperature
\* outside 0..90 ends in PrinterError with no object queried and no gcode sent.
C14_TemperatureRanges ==
    /\ (op = "set_bed_temperature" /\ Done) =>
          IF a.temp_c < 0 \/ a.temp_c > 150
          THEN exc = "PrinterError" /\ NoGcodeSent
          ELSE (Len(log) >= 1 /\ ReadyAt(1)) =>
                  IF ~a.wait
                  THEN PostScripts = << << [g |-> "M140", S |-> a.temp_c * 10] >> >>
                  ELSE /\ PostScripts \in
                            { << << [g |-> "M190", S |-> a.temp_c * 10] >> >>,
                              << << [g |-> "M190", S |-> a.temp_c * 10] >>,
                                 << [g |-> "M400"] >> >> }
                       /\ (\A i \in Posts : log[i].ok) => Len(PostScripts) = 2
    /\ (op = "set_chamber_temperature" /\ Done /\ (a.temp_c < 0 \/ a.temp_c > 90)) =>
          /\ exc = "PrinterError"
          /\ NoGcodeSent /\ Queries = {}

\* the bed was set to the top of its range and waited for
C14_Witness ==
    /\ op = "set_bed_temperature" /\ Done /\ exc = "ok"
    /\ a.temp_c = 150 /\ a.wait
    /\ Len(PostScripts) = 2

-----------------------------------------------------------------------------
(* C15 *)

\* C15 as stated: every call that fails, fails with PrinterError.
C15_OnlyPrinterError ==
    Done => exc \in {"ok", "PrinterError"}

-----------------------------------------------------------------------------
(* C16 *)

WaitFailures ==
    { i \in DOMAIN log :
        log[i].ev = "wait" /\ log[i].res \in {"timeout", "reading failed"} }

\* C16 as stated: once the temperature wait of set_chamber_temperature has
\* failed (timeout, or no chamber reading), the call queries no further
\* object and sends no further command, and it ends with the error of the
\* wait.
C16_WaitFailureSurfaced ==
    op = "set_chamber_temperature" =>
        \A i \in WaitFailures :
            /\ \A j \in (i + 1)..Len(log) : log[j].ev \notin {"query", "post"}
            /\ Done => /\ exc = "PrinterError"
                       /\ msg # "Cannot set chamber temperature"

-----------------------------------------------------------------------------
(* C17 *)

\* the cache is assigned by refresh_limits only; besides that, a new object
\* starts without limits and a constructor that raised leaves no object
LimitsStep ==
    limits' # limits =>
        \/ /\ obj = "Printer" /\ pc = "refresh"
           /\ frame \in {"refresh_limits", "initialize"}
           /\ limits' # None
        \/ Idle /\ op' = "__init__" /\ limits' = None
        \/ op = "__init__" /\ Done /\ obj' = "none"

\* a call other than initialize / refresh_limits reads no limits from the
\* printer, and each run of the validator answers for the cached limits
ChecksUseCache ==
    (obj = "Printer" /\ op \notin {"__init__", "initialize", "refresh_limits"}) =>
        \A j \in DOMAIN log :
            /\ log[j].ev # "limits"
            /\ log[j].ev = "check" =>
                  (log[j].res = "ok" <=>
                      (limits # None /\ InBox(ScaleLimits(limits, log[j].den),
                                              ScaleBox(cfg, log[j].den), log[j].p)))

\* C17: Printer._limits changes only in refresh_limits (also when called by
\* initialize); moves, homing, thermal operations, set_motion_limits and
\* wait_moves leave it unchanged, and the validator checks against the cached
\* limits, without reading the limits of the printer again.
C17_LimitsChangeOnlyOnRefresh ==
    [][LimitsStep]_vars /\ []ChecksUseCache

\* with the smaller limits cached, a point that the larger limits would
\* admit was refused
C17_Witness ==
    /\ obj = "Printer" /\ op = "move_absolute" /\ Done
    /\ limits = LimitsB
    /\ InBox(LimitsA, cfg, a.p) /\ ~InBox(LimitsB, cfg, a.p)
    /\ \E j \in DOMAIN log : log[j].ev = "check" /\ log[j].res # "ok"
    /\ exc = "PrinterError" /\ NoGcodeSent

-----------------------------------------------------------------------------
(* C18 *)

\* C18 as stated: on a Printer without cached limits, move_absolute,
\* safe_y_pass and home send no G1 and no G28 and end in PrinterError.
C18_NoLimitsNoMotion ==
    (obj = "Printer" /\ limits = None
        /\ op \in {"move_absolute", "safe_y_pass", "home"}) =>
        /\ MotionPosts = {}
        /\ Done => exc = "PrinterError"

-----------------------------------------------------------------------------
(* C19 *)

IsCheck(e) == e.ev = "check"

\* the validator runs of the call, in order
CheckSeq == SelectSeq(log, IsCheck)

\* the four key points of the pass in progress
PassPoints ==
    << <<a.x, a.y_start, a.z_safe>>, <<a.x, a.y_end, a.z_safe>>,
       <<a.x, a.y_start, a.z_contact>>, <<a.x, a.y_end, a.z_contact>> >>

\* lift, approach, lower, travel along Y, lift (coordinates in thousandths,
\* feedrates in mm/min)
PassScript ==
    << [g |-> "G90"],
       [g |-> "G1", X |-> {}, Y |-> {}, Z |-> {a.z_safe * 1000}, F |-> 8 * 60],
       [g |-> "G1", X |-> {a.x * 1000}, Y |-> {a.y_start * 1000}, Z |-> {},
        F |-> Feed(a.approach_speed_mm_s)],
       [g |-> "G1", X |-> {}, Y |-> {}, Z |-> {a.z_contact * 1000}, F |-> 8 * 60],
       [g |-> "G1", X |-> {}, Y |-> {a.y_end * 1000}, Z |-> {},
        F |-> Feed(a.travel_speed_mm_s)],
       [g |-> "G1", X |-> {}, Y |-> {}, Z |-> {a.z_safe * 1000}, F |-> 8 * 60] >>

\* C19: safe_y_pass runs the validator on the four key points, in the order
\* (x,y_start,z_safe), (x,y_end,z_safe), (x,y_start,z_contact),
\* (x,y_end,z_contact), before anything is sent; when a point is refused
\* nothing is sent; otherwise exactly one motion script is sent, with the
\* moves lift to z_safe, approach (x, y_start), lower to z_contact, travel
\* to y_end along Y only, lift to z_safe (the only other script the call may
\* send is the M400 of wait=True, after it).  A pass with y_start = y_end
\* and z_contact = z_safe is no exception.
C19_SafeYPassOrder ==
    op = "safe_y_pass" =>
        /\ Cardinality(G1Posts) <= 1
        /\ \A i \in Posts :
              IF i \in G1Posts
              THEN /\ log[i].script = PassScript
                   /\ \A j \in 1..(i - 1) : log[j].ev # "post"
                   /\ Len(CheckSeq) = 4
                   /\ \A k \in 1..4 : /\ CheckSeq[k].p = PassPoints[k]
                                      /\ CheckSeq[k].res = "ok"
                   /\ \A j \in Checks : j < i
              ELSE /\ log[i].script = << [g |-> "M400"] >>
                   /\ a.wait
                   /\ \E j \in G1Posts : j < i /\ log[j].ok
        /\ (Done /\ (limits = None \/ \E k \in 1..4 : ~InBox(limits, cfg, PassPoints[k]))) =>
              (exc = "PrinterError" /\ NoGcodeSent)
        /\ (Done /\ GatesPassed /\ limits # None
              /\ a.travel_speed_mm_s > 0 /\ a.approach_speed_mm_s > 0
              /\ \A k \in 1..4 : InBox(limits, cfg, PassPoints[k])) =>
              Cardinality(G1Posts) = 1

\* a pass of no length at a single height was sent
C19_Witness ==
    /\ op = "safe_y_pass" /\ Done /\ exc = "ok"
    /\ a.y_start = a.y_end /\ a.z_safe = a.z_contact
    /\ G1Posts # {}

-----------------------------------------------------------------------------
(* C20 *)

\* p is inside the axis limits and not below the air floor
AirValid(lim, c, p) ==
    /\ \A n \in 1..3 : lim[n][1] <= p[n] /\ p[n] <= lim[n][2]
    /\ p[3] >= c.z_air_min

\* start then end, in one absolute script
LineScript ==
    << [g |-> "G90"],
       [g |-> "G1", X |-> {a.start[1] * 1000}, Y |-> {a.start[2] * 1000},
        Z |-> {a.start[3] * 1000}, F |-> Feed(a.speed_mm_s)],
       [g |-> "G1", X |-> {a.end[1] * 1000}, Y |-> {a.end[2] * 1000},
        Z |-> {a.end[3] * 1000}, F |-> Feed(a.speed_mm_s)] >>

\* C20: move_line_air validates the start and then the end point (axis
\* limits read for that validation, and z >= z_air_min) before any gcode is
\* sent; when either point is refused the call ends in PrinterError and
\* nothing is sent, not even the move to the start; when both are accepted
\* one script is sent, moving to start and then to end.
C20_LineAllOrNothing ==
    (obj = "K2Pro" /\ op = "move_line_air") =>
        /\ Cardinality(Posts) <= 1
        /\ \A j \in Checks :
              /\ j > 1 /\ log[j - 1].ev = "limits"
              /\ log[j].res = "ok" <=> AirValid(log[j - 1].r.limits, cfg, log[j].p)
        /\ \A i \in Posts :
              /\ log[i].script = LineScript
              /\ Len(CheckSeq) = 2
              /\ CheckSeq[1].p = a.start /\ CheckSeq[2].p = a.end
              /\ CheckSeq[1].res = "ok" /\ CheckSeq[2].res = "ok"
              /\ \A j \in Checks : j < i
        /\ (Done /\ \E j \in Checks : log[j].res # "ok") =>
              (exc = "PrinterError" /\ NoGcodeSent)
        /\ (Done /\ Len(CheckSeq) = 2 /\ \A j \in Checks : log[j].res = "ok") =>
              Posts # {}

\* the start was accepted, the end refused, and nothing was sent
C20_Witness ==
    /\ obj = "K2Pro" /\ op = "move_line_air" /\ Done
    /\ Len(CheckSeq) = 2
    /\ CheckSeq[1].res = "ok" /\ CheckSeq[2].res # "ok"
    /\ exc = "PrinterError" /\ NoGcodeSent

-----------------------------------------------------------------------------
(* C21 *)

\* the log position of the k-th POST of the call
PostAt(k) == CHOOSE i \in Posts : Cardinality({ j \in Posts : j <= i }) = k

\* (xmax/2, ymax/2, 10 - attach_min_z) for the cached limits, in thousandths
\* of a millimetre
ParkPoint == << 500 * limits[1][2], 500 * limits[2][2], 1000 * (10 - cfg.attach_min_z) >>

\* the validator run logged at c was made on the point pt (in thousandths)
CheckedPoint(c, pt) == \A n \in 1..3 : log[c].den * pt[n] = 1000 * log[c].p[n]

\* the k-th of the three scripts of Printer.home
HomeScript(k) ==
    CASE k = 1 -> << [g |-> "G28", axes |-> upper(a.axes)] >>
      [] k = 2 -> << [g |-> "M400"] >>
      [] k = 3 ->
          << [g |-> "G90"],
             [g |-> "G1", X |-> {ParkPoint[1]}, Y |-> {ParkPoint[2]},
              Z |-> {ParkPoint[3]}, F |-> 20 * 60] >>

\* C21: Printer.home sends G28 <axes>, then M400, then the absolute move to
\* (xmax/2, ymax/2, 10 - attach_min_z), each only after the one before was
\* accepted; the move is sent only after a ready read, a homed-xyz read and
\* a successful validation of that point, all made after the M400 (no other
\* point is validated); home returns normally only when the three were
\* sent, and whenever the move part of home is running or has failed, G28
\* and M400 were already sent.
C21_HomeOrder ==
    (obj = "Printer" /\ op = "home") =>
        /\ Len(PostScripts) <= 3
        /\ \A k \in 1..Len(PostScripts) :
              /\ k < 3 => PostScripts[k] = HomeScript(k)
              /\ k = 3 => (limits # None /\ PostScripts[k] = HomeScript(k))
              /\ k > 1 => log[PostAt(k - 1)].ok
        /\ Len(PostScripts) = 3 =>
              \E j, k, c \in (PostAt(2) + 1)..(PostAt(3) - 1) :
                  /\ j < k /\ k < c
                  /\ ReadyAt(j) /\ HomedAt(k)
                  /\ log[c].ev = "check" /\ CheckedPoint(c, ParkPoint)
                  /\ log[c].res = "ok"
                  /\ InBox(ScaleLimits(limits, 1000), ScaleBox(cfg, 1000), ParkPoint)
        /\ \A c \in Checks : limits # None /\ CheckedPoint(c, ParkPoint)
        /\ (Done /\ exc = "ok") => (Len(PostScripts) = 3 /\ log[PostAt(3)].ok)
        /\ frame \in {"move_absolute", "wait_moves"} =>
              (Len(PostScripts) >= 2 /\ log[PostAt(1)].ok /\ log[PostAt(2)].ok)

\* home on a 235 mm bed with a wheel 12 mm below the nozzle ended normally,
\* parked at (117.5, 117.5, 22)
C21_Witness ==
    /\ obj = "Printer" /\ op = "home" /\ Done /\ exc = "ok"
    /\ cfg.attach_min_z = -12
    /\ Len(PostScripts) = 3
    /\ PostScripts[3][2].X = {117500} /\ PostScripts[3][2].Z = {22000}
    /\ \E c \in DOMAIN log : log[c].ev = "check" /\ CheckedPoint(c, <<117500, 117500, 22000>>)

-----------------------------------------------------------------------------
(* C22 *)

\* the position reads of the call that were answered
PositionReads ==
    { q \in DOMAIN log : log[q].ev = "position" /\ log[q].r.ok /\ log[q].r.present }

\* the Z move_xy_air has to command when the toolhead is at height cz
AirZ(cz) == IF cz < cfg.z_air_min THEN cfg.z_air_min ELSE cz

\* Z first, then X and Y (coordinates in thousandths, feedrates in mm/min)
XyScript(z) ==
    << [g |-> "G90"],
       [g |-> "G1", X |-> {}, Y |-> {}, Z |-> {z * 1000}, F |-> 30 * 60],
       [g |-> "G1", X |-> {a.x * 1000}, Y |-> {a.y * 1000}, Z |-> {},
        F |-> Feed(a.speed_mm_s)] >>

\* C22: move_xy_air validates and commands the point (x, y, Z) with
\* Z = max(current Z read in this call, z_air_min), so Z is never below the
\* current Z; the script has the Z move before the XY move and is sent only
\* after that point passed the validation against the axis limits read for
\* it; when x or y is out of range, or Z is above the Z maximum, the call
\* ends in PrinterError with nothing sent.
C22_XyMoveNeverLowers ==
    (obj = "K2Pro" /\ op = "move_xy_air") =>
        /\ Cardinality(PositionReads) <= 1 /\ Cardinality(Posts) <= 1
        /\ \A c \in Checks :
              \E q \in PositionReads :
                  /\ q < c
                  /\ log[c].p = << a.x, a.y, AirZ(log[q].r.z) >>
                  /\ log[c].p[3] >= log[q].r.z
                  /\ log[c - 1].ev = "limits"
                  /\ log[c].res = "ok" <=> AirValid(log[c - 1].r.limits, cfg, log[c].p)
        /\ \A i \in Posts :
              \E c \in Checks :
                  /\ c < i /\ log[c].res = "ok"
                  /\ log[i].script = XyScript(log[c].p[3])
        /\ (Done /\ \E c \in Checks : ~AirValid(log[c - 1].r.limits, cfg, log[c].p)) =>
              (exc = "PrinterError" /\ NoGcodeSent)

\* the toolhead was below the air floor and the script lifts it to the floor
C22_Witness ==
    /\ obj = "K2Pro" /\ op = "move_xy_air" /\ Done /\ exc = "ok"
    /\ \E q \in PositionReads : log[q].r.z < cfg.z_air_min
    /\ \E i \in Posts : log[i].script[2].Z = {cfg.z_air_min * 1000}

\* the toolhead was reported above the Z maximum and nothing was sent
C22_AboveZMax ==
    /\ obj = "K2Pro" /\ op = "move_xy_air" /\ Done
    /\ \E q \in PositionReads : log[q].r.z = 350
    /\ \E c \in Checks : log[c].res # "ok" /\ log[c].p[1] = 200 /\ log[c].p[2] = 200
    /\ exc = "PrinterError" /\ NoGcodeSent

-----------------------------------------------------------------------------
(* C23 *)

\* the operations that begin with _ensure_ready
ReadyFirstOps ==
    {"home", "set_motion_limits", "set_bed_temperature", "set_chamber_temperature",
     "move_absolute", "safe_y_pass", "move_relative",
     "move_absolute_air", "move_line_air", "move_xy_air"}

\* C23: home, set_motion_limits, set_bed_temperature,
\* set_chamber_temperature and every move of Printer and K2Pro begin with the
\* read of the printer info; when it reports a state other than "ready" the
\* call ends there in PrinterError: no query, prompt, validation or POST is
\* made.  Later in a call too, nothing follows an info read that is not
\* "ready".
C23_ReadinessCheckedFirst ==
    op \in ReadyFirstOps =>
        /\ log # <<>> => log[1].ev = "info"
        /\ \A i \in Posts : ReadyAt(1)
        /\ \A j \in DOMAIN log :
              (log[j].ev = "info" /\ ~ReadyAt(j)) =>
                  /\ j = Len(log)
                  /\ Done /\ exc = "PrinterError"
                  /\ log[j].r.ok => msg = "Printer not ready"
                  /\ j = 1 => NoGcodeSent

\* homing with confirmation asked for ended at the info read: no prompt
C23_Witness ==
    /\ obj = "Printer" /\ op = "home" /\ a.confirm /\ Done
    /\ Len(log) = 1 /\ log[1].ev = "info"
    /\ log[1].r.ok /\ log[1].r.state = "shutdown"
    /\ exc = "PrinterError" /\ msg = "Printer not ready"

-----------------------------------------------------------------------------
(* C24 *)

\* one step of the _wait_chamber_reach loop
ChamberStep ==
    \/ wait_chamber_reach_poll
    \/ wait_chamber_reach_clock
    \/ wait_chamber_reach_sleep

\* set_chamber_temperature called on a constructed Printer
ChamberNext ==
    \/ Printer_init
    \/ Return
    \/ ensure_ready
    \/ refresh_limits
    \/ Printer_set_chamber_temperature
    \/ set_chamber_temperature_heater_probe
    \/ set_chamber_temperature_heater_send
    \/ set_chamber_temperature_fan_probe
    \/ set_chamber_temperature_fan_send
    \/ wait_chamber_reach_poll
    \/ wait_chamber_reach_clock
    \/ wait_chamber_reach_sleep
    \/ ChamberTick

\* the interpreter keeps running the loop; time.sleep(poll_s) makes time pass
ChamberLiveSpec == Init /\ [][ChamberNext]_vars /\ WF_vars(ChamberStep)

InBand(cur, target) == cur - target <= 1 /\ target - cur <= 1

\* the loop was left by the last step
LeftChamberWait ==
    /\ frame = "set_chamber_temperature"
    /\ log # <<>> /\ log[Len(log)].ev = "wait"

ChamberWaitSafe ==
    /\ frame = "_wait_chamber_reach" =>
          /\ op = "set_chamber_temperature"
          /\ m.target_c = a.temp_c
          /\ m.timeout = cfg.timeout * TicksPerSec
    /\ (frame = "_wait_chamber_reach" /\ pc \in {"reach_clock", "reach_sleep"}) =>
          /\ reads >= 1
          /\ m.cur # <<>> /\ ~InBand(m.cur[1], a.temp_c)
    /\ LeftChamberWait =>
          /\ reads >= 1
          /\ log[Len(log)].res = "reached" =>
                (m.cur # <<>> /\ InBand(m.cur[1], a.temp_c) /\ Done /\ exc = "ok")
          /\ log[Len(log)].res = "timeout" =>
                /\ elapsed > cfg.timeout * TicksPerSec
                /\ m.cur # <<>> /\ ~InBand(m.cur[1], a.temp_c)

\* the loop goes on to sleep only when the elapsed time is within timeout_s
SleepsWithinTimeout ==
    (frame = "_wait_chamber_reach" /\ pc = "reach_clock" /\ pc' = "reach_sleep") =>
        elapsed <= cfg.timeout * TicksPerSec

\* C24: _wait_chamber_reach polls at least once; it returns when, and only
\* when, a poll reads a temperature within tol = 1 degree of the target;
\* after a reading outside the band it raises the timeout error as soon as
\* the elapsed time is above timeout_s, which in set_chamber_temperature is
\* the configured cfg.timeout; and the loop always ends.
C24_ChamberWaitEnds ==
    /\ []ChamberWaitSafe
    /\ [][SleepsWithinTimeout]_vars
    /\ ChamberWaiting ~> ~ChamberWaiting

\* with the 10 s timeout configured the wait ended in a timeout after 10 s
C24_Witness ==
    /\ LeftChamberWait /\ log[Len(log)].res = "timeout"
    /\ cfg.timeout = 10
    /\ elapsed = 10 * TicksPerSec + 1
    /\ sleeps >= 1

-----------------------------------------------------------------------------
(* C25 *)

\* the speed or feedrate arguments of the call in progress
SpeedArgs ==
    CASE op \in {"move_absolute", "move_absolute_air", "move_line_air", "move_xy_air"}
            -> { a.speed_mm_s }
      [] op = "safe_y_pass" -> { a.travel_speed_mm_s, a.approach_speed_mm_s }
      [] op = "set_motion_limits" -> { a.velocity_mm_s }
      [] op = "move_relative" -> { a.feedrate_mm_min }
      [] OTHER -> {}

\* the feedrate of a G1 line (mm/min) and the whole part of the velocity of a
\* SET_VELOCITY_LIMIT line (sent in thousandths) are at least 1
LineSpeedPositive(l) ==
    /\ l.g = "G1" => l.F >= 1
    /\ l.g = "SET_VELOCITY_LIMIT" => l.VELOCITY \div 1000 >= 1

\* C25 as stated: a call given a speed or feedrate that is not positive ends
\* in PrinterError with nothing sent, and every G1 and SET_VELOCITY_LIMIT
\* line sent carries a feedrate / velocity of at least 1 once truncated.
C25_SpeedsPositive ==
    /\ (Done /\ \E v \in SpeedArgs : v <= 0) => (exc = "PrinterError" /\ NoGcodeSent)
    /\ \A i \in Posts : \A k \in DOMAIN log[i].script :
          LineSpeedPositive(log[i].script[k])


====
